---- MODULE Spec2Model ----
(***************************************************************************)
(* sesamo: reactive cell (Ref), unmount registry, tree-removal detector    *)
(* (a shared MutationObserver) and the mount entry point.                  *)
(*                                                                         *)
(* SpecRef    : the reactive cell on its own (set / subscribe / unsub).    *)
(* Spec       : the mount / cleanup lifecycle over a small document tree.  *)
(* SpecText   : a text node bound to a cell that also holds null.          *)
(* SpecRouter : the hash router (src/public/router.ts:1-143).              *)
(* SpecList   : the reactive list (src/public/router.ts:262-326).          *)
(* SpecH      : the element builder h with its children and style prop.    *)
(* SpecClean  : the lifecycle with a throwing and a registering cleanup.   *)
(* SpecLive   : the lifecycle with the observer's microtask always run.    *)
(* SpecOrder  : the lifecycle with a removed subtree four nodes large.     *)
(* SpecMove   : the lifecycle with moves and removals outside the root.    *)
(* SpecBound  : a mounted list whose items are text nodes bound to a cell. *)
(* SpecEvent  : the mounted element with a click handler, moved about.     *)
(* SpecNested : a cell with a text node and a callback that calls set.     *)
(*                                                                         *)
(* Source references: h.ts is src/public/h.ts, mount.ts is                 *)
(* src/public/mount.ts, cleanup.ts is src/internal/cleanup.ts (lines 1-89) *)
(* and index.ts:7-76 is the internal DOM helper (appendChild,              *)
(* appendRefText).                                                         *)
(*                                                                         *)
(* A set() call is followed through its notification loop one listener at  *)
(* a time (Set, Notify, Return), because a listener may itself subscribe,  *)
(* unsubscribe or call set.  All other operations run from top-level code, *)
(* when no set() call is in progress.  The observer callback runs as a     *)
(* microtask, hence also only when no call is in progress.                 *)
(*                                                                         *)
(* The platform is modelled after the DOM standard: a removal under a node *)
(* that has the observer registered (with subtree: true) queues a record   *)
(* and leaves a transient registered observer on the removed node until    *)
(* the next delivery; replaceChildren queues one record listing every      *)
(* replaced child.  In Spec the containers root and other stay children of *)
(* body and only root is handed to mount.                                  *)
(***************************************************************************)
EXTENDS Integers, Sequences, FiniteSets, TLC

VARIABLES
    value,          \* Ref.value
    subs,           \* Ref.subs, a JS Set: insertion-ordered, no duplicates
    stack,          \* set() calls in progress, innermost last
    handles,        \* callbacks for which subscribe() has returned a handle
    unsubscribed,   \* callbacks unsubscribed and not subscribed again since
    obs,            \* what the last completed operation did (observation)
    children,       \* DOM: node -> ordered child list
    observing,      \* DOM: nodes in whose registered-observer list the observer is
    transient,      \* DOM: nodes carrying a transient registered observer
    records,        \* DOM: the observer's pending record queue (removedNodes lists)
    observedRoots,  \* mount.ts: WeakSet of roots already observed
    observeCalls,   \* number of observer.observe(root, ...) calls per root
    registry,       \* cleanup.ts: nodeUnmountCallbacks (node -> JS Set of callbacks)
    bound,          \* text nodes already created and bound by appendRefText
    mountCalls,     \* number of mount(root, ...) calls per root
    replaced,       \* nodes mount has replaced since the last delivery
    text,           \* index.ts:64-69  textNode.data of the bound text node
    routerRoot,     \* router.ts:13  the element the router renders into, or null
    routes,         \* router.ts:10  Map from route path to component
    hash,           \* location.hash
    hashListeners,  \* number of hashchange listeners createRouter has added
    hashEvents,     \* hashchange events fired and not yet dispatched
    items,          \* router.ts:294  the array held by the items cell of a list
    listSubs,       \* subscribers of the items cell
    listKids,       \* child nodes of the element list() returns
    listeners,      \* elements whose click listener is attached
    wired,          \* elements h has built with an onclick prop
    moved,          \* history: nodes moved under a mounted root, not cleaned since
    stored          \* history: the subscribers when the value was last stored,
                    \* and the callbacks invoked since

vars == <<value, subs, stack, handles, unsubscribed, obs, children, observing, transient,
          records, observedRoots, observeCalls, registry, bound, mountCalls, replaced,
          text, routerRoot, routes, hash, hashListeners, hashEvents,
          items, listSubs, listKids, listeners, wired, moved, stored>>

refVars == <<value, subs, stack, handles, unsubscribed>>
docVars == <<children, observing, transient, records, observedRoots,
             observeCalls, registry, bound, mountCalls, replaced>>
domVars == <<docVars, text>>
routerVars == <<routerRoot, routes, hash, hashListeners, hashEvents>>
listVars == <<items, listSubs, listKids>>
eventVars == <<listeners, wired>>

----------------------------------------------------------------------------
(* Sequences used as insertion-ordered sets.                               *)

Range(s) == {s[i] : i \in 1..Len(s)}

SeqAdd(s, x) == IF x \in Range(s) THEN s ELSE Append(s, x)

SeqDel(s, x) == SelectSeq(s, LAMBDA y : y # x)

----------------------------------------------------------------------------
(* JavaScript values held by the cell: the numbers NaN, +0, -0, 1, -1 and  *)
(* null.                                                                   *)

JsNaN    == [hole |-> FALSE, nan |-> TRUE,  neg |-> FALSE, mag |-> 0]
PlusZero == [hole |-> FALSE, nan |-> FALSE, neg |-> FALSE, mag |-> 0]
MinusZero == [hole |-> FALSE, nan |-> FALSE, neg |-> TRUE, mag |-> 0]
One      == [hole |-> FALSE, nan |-> FALSE, neg |-> FALSE, mag |-> 1]
MinusOne == [hole |-> FALSE, nan |-> FALSE, neg |-> TRUE,  mag |-> 1]
JsNull   == [hole |-> TRUE,  nan |-> FALSE, neg |-> FALSE, mag |-> 0]

Values == {JsNaN, PlusZero, MinusZero, One, MinusOne}

\* The === operator: NaN is unequal to itself, +0 equals -0, null equals
\* only null.
StrictEquals(a, b) ==
    IF a.hole \/ b.hole THEN a.hole /\ b.hole
    ELSE IF a.nan \/ b.nan THEN FALSE
    ELSE IF a.mag = 0 /\ b.mag = 0 THEN TRUE
    ELSE a.neg = b.neg /\ a.mag = b.mag

\* h.ts:139  Object.is: NaN is identical to NaN, +0 and -0 are distinct,
\* null is identical only to null.
ObjectIs(a, b) ==
    IF a.hole \/ b.hole THEN a.hole /\ b.hole
    ELSE IF a.nan \/ b.nan THEN a.nan /\ b.nan
    ELSE a.neg = b.neg /\ a.mag = b.mag

\* index.ts:17-19  isHole: value == null || typeof value === "boolean"
IsHole(v) == v.hole

\* String(value) of a non-hole value; String(-0) is "0".
StringOf(v) ==
    IF v.hole THEN "null"
    ELSE IF v.nan THEN "NaN"
    ELSE IF v.mag = 0 THEN "0"
    ELSE IF v.neg THEN "-1" ELSE "1"

\* A text update that does not test for holes.
UpdateTextNoHole(v) == StringOf(v)

\* index.ts:67-70  updateText: textNode.data = isHole(value) ? "" : String(value)
UpdateText(v) == IF IsHole(v) THEN "" ELSE StringOf(v)

\* Updater functions passed to set: curr => curr and curr => -curr; a third
\* updater, "throw", throws and returns nothing.
Updaters == {"same", "negate"}

\* -null is -0, -NaN is NaN.
ApplyUpdater(u, curr) ==
    IF u # "negate" \/ curr.nan THEN curr
    ELSE IF curr.hole THEN MinusZero
    ELSE [curr EXCEPT !.neg = ~curr.neg]

\* An argument of set: a literal value or an updater function.
SetArgs == [fn : {FALSE}, val : Values, upd : {"none"}]
           \cup [fn : {TRUE}, val : {PlusZero}, upd : Updaters]

\* An updater applied to its own result.
NextValueTwice(next, prev) ==
    IF next.fn THEN ApplyUpdater(next.upd, ApplyUpdater(next.upd, prev))
    ELSE next.val

\* h.ts:136-137  typeof next === "function" ? next(prev) : next
NextValue(next, prev) ==
    IF next.fn THEN ApplyUpdater(next.upd, prev) ELSE next.val

----------------------------------------------------------------------------
(* Subscriber callbacks.  User callbacks differ in what they do when       *)
(* invoked; "rt" is the closure appendRefText subscribes for text node t.  *)

UserSubs   == {"fa", "fb", "fu", "fs", "fn"}

\* The text nodes a list renders for its items when renderFn returns the
\* cell (index.ts:44-46), and the closure appendRefText subscribes for each.
ItemNodesAll == <<"i1", "i2", "i3", "i4", "i5", "i6">>
ItemSubsAll  == <<"r1", "r2", "r3", "r4", "r5", "r6">>

RenderSubs == {"rt"} \cup Range(ItemSubsAll)
Subscribers == UserSubs \cup RenderSubs

\* What a callback does when the cell invokes it.
Behaviour(f) ==
    CASE f = "fb" -> "throw"       \* throws an Error
      [] f = "fu" -> "unsub"       \* calls r.unsub(fa)
      [] f = "fs" -> "sub"         \* calls r.subscribe(fa)
      [] f = "fn" -> "set"         \* calls r.set(1)
      [] OTHER    -> "plain"

Target == "fa"
NestedArg == [fn |-> FALSE, val |-> One, upd |-> "none"]

ZeroInv == [f \in Subscribers |-> 0]

NoObs == [op |-> "none"]

\* A set() call that notifies nobody when it is made during a notification.
NewFrameGuarded(arg, prev, nv, snapshot) ==
    [arg |-> arg, listeners |-> IF stack = <<>> THEN snapshot ELSE <<>>,
     snap |-> snapshot, gone |-> unsubscribed, inv |-> ZeroInv,
     prev |-> prev, next |-> nv, error |-> FALSE]

\* A set() call that got past the Object.is test: the snapshot still to be
\* notified, plus a record of what the call has done so far.
NewFrame(arg, prev, nv, snapshot) ==
    [arg       |-> arg,         \* the argument set was called with
     listeners |-> snapshot,    \* h.ts:145  Array.from(this.subs)
     snap      |-> snapshot,    \* the subscriber set when notification began
     gone      |-> unsubscribed,\* the callbacks unsubscribed at that time
     inv       |-> ZeroInv,     \* invocations made by this call
     prev      |-> prev,
     next      |-> nv,
     error     |-> FALSE]       \* an error is propagating out of this call

Top == stack[Len(stack)]

\* A loop that skips the listeners no longer in this.subs.
ListenersStillSubscribed(fr) ==
    SelectSeq(fr.listeners, LAMBDA f : f \in Range(subs))

\* h.ts:147  for (const fn of listeners): what is left of the snapshot array
Listeners(fr) == fr.listeners

ReturnValueNext(fr) == fr.next

\* h.ts:155  return this.value
ReturnValue(fr) == value

SetTop(fr) == [stack EXCEPT ![Len(stack)] = fr]

\* h.ts:147-153  try { fn() } catch (err) {}: the loop goes on to the next
\* listener whether or not fn threw.
AfterInvokeNoCatch(fr, fn, threw) ==
    IF threw
    THEN [fr EXCEPT !.listeners = <<>>, !.inv[fn] = @ + 1, !.error = TRUE]
    ELSE [fr EXCEPT !.listeners = Tail(@), !.inv[fn] = @ + 1]

AfterInvoke(fr, fn, threw) ==
    [fr EXCEPT !.listeners = Tail(@), !.inv[fn] = @ + 1]

\* A subscriber list that takes the same callback more than once.
SubsAddList(s, fn) == Append(s, fn)

\* h.ts:165  this.subs.add(fn)
SubsAdd(s, fn) == SeqAdd(s, fn)

SubsDeleteNoop(s, fn) == s

\* h.ts:166, 175  this.subs.delete(fn)
SubsDelete(s, fn) == SeqDel(s, fn)

\* A handle that puts fn back when it is no longer subscribed.
HandleToggle(s, fn) ==
    IF fn \in Range(s) THEN SubsDelete(s, fn) ELSE Append(s, fn)

\* h.ts:166  the closure subscribe returns: () => this.subs.delete(fn)
Handle(s, fn) == SubsDelete(s, fn)

\* What a subscribe, unsub or handle call did: the subscriber set it found.
SubsObs(op, fn) == [op |-> op, fn |-> fn, before |-> subs, error |-> FALSE]

\* The history of the last store is kept only where it is asked for: a
\* behaviour that starts with Untraced keeps it.
Untraced == [on |-> FALSE, at |-> <<>>, seen |-> {}]

Traced(h) == IF stored.on THEN h ELSE stored

\* h.ts:143  this.value = nextValue, with the subscribers s at that moment
StoredNow(s) == [on |-> TRUE, at |-> s, seen |-> {}]

\* h.ts:149  fn() was invoked
StoredSeen(fn) == [stored EXCEPT !.seen = @ \cup {fn}]

----------------------------------------------------------------------------
(* Ref operations (public/h.ts:110-177).                                   *)

\* An updater that returns instead of throwing.
UpdaterThrowsNever(next) == FALSE

\* h.ts:136-137  next(prev) throws: the updater curr => { throw ... }
UpdaterThrows(next) == next.fn /\ next.upd = "throw"

\* Ref.set called from top-level code.  An error thrown by the updater
\* leaves set at h.ts:137, before the Object.is test and the store.
Set(next) ==
    /\ stack = <<>>
    /\ LET prev == value
           nv   == NextValue(next, prev)
       IN IF UpdaterThrows(next)
          THEN /\ obs' = [op |-> "set", arg |-> next, prev |-> prev, next |-> prev,
                          snap |-> subs, gone |-> unsubscribed,
                          inv |-> ZeroInv, ret |-> prev, error |-> TRUE]
               /\ UNCHANGED <<value, subs, stack, stored>>
          ELSE IF ObjectIs(prev, nv)
          THEN /\ obs' = [op |-> "set", arg |-> next, prev |-> prev, next |-> nv,
                          snap |-> subs, gone |-> unsubscribed,
                          inv |-> ZeroInv, ret |-> prev, error |-> FALSE]
               /\ UNCHANGED <<value, subs, stack, stored>>
          ELSE /\ value' = nv
               /\ stack' = <<NewFrame(next, prev, nv, subs)>>
               /\ obs' = NoObs
               /\ stored' = Traced(StoredNow(subs))
               /\ UNCHANGED subs
    /\ UNCHANGED <<handles, unsubscribed, domVars, routerVars,
                   listVars, eventVars, moved>>

\* One turn of the notification loop: invoke the next listener of the
\* innermost call, with whatever that callback does.
Notify ==
    /\ stack # <<>>
    /\ Listeners(Top) # <<>>
    /\ LET fn  == Head(Listeners(Top))
           beh == Behaviour(fn)
           fr  == AfterInvoke(Top, fn, beh = "throw")
       IN CASE beh = "unsub" ->
                 /\ subs' = SubsDelete(subs, Target)
                 /\ unsubscribed' = unsubscribed \cup {Target}
                 /\ stack' = SetTop(fr)
                 /\ UNCHANGED value
            [] beh = "sub" ->
                 /\ subs' = SubsAdd(subs, Target)
                 /\ unsubscribed' = unsubscribed \ {Target}
                 /\ stack' = SetTop(fr)
                 /\ UNCHANGED value
            [] beh = "set" ->
                 LET prev == value
                     nv   == NextValue(NestedArg, prev)
                 IN IF ObjectIs(prev, nv)
                    THEN /\ UNCHANGED <<value, subs, unsubscribed>>
                         /\ stack' = SetTop(fr)
                         /\ stored' = Traced(StoredSeen(fn))
                    ELSE /\ value' = nv
                         /\ UNCHANGED <<subs, unsubscribed>>
                         /\ stack' = Append(SetTop(fr),
                                         NewFrame(NestedArg, prev, nv, subs))
                         /\ stored' = Traced(StoredNow(subs))
            [] OTHER ->
                 /\ UNCHANGED <<value, subs, unsubscribed>>
                 /\ stack' = SetTop(fr)
    /\ text' = IF Head(Listeners(Top)) = "rt" THEN UpdateText(value) ELSE text
    /\ Behaviour(Head(Listeners(Top))) # "set" =>
           stored' = Traced(StoredSeen(Head(Listeners(Top))))
    /\ obs' = NoObs
    /\ UNCHANGED <<handles, docVars, routerVars,
                   listVars, eventVars, moved>>

\* h.ts:155  return this.value
Return ==
    /\ stack # <<>>
    /\ Listeners(Top) = <<>>
    /\ obs' = [op |-> "set", arg |-> Top.arg, prev |-> Top.prev,
               next |-> Top.next, snap |-> Top.snap, gone |-> Top.gone,
               inv |-> Top.inv, ret |-> ReturnValue(Top), error |-> Top.error]
    /\ stack' = SubSeq(stack, 1, Len(stack) - 1)
    /\ UNCHANGED <<value, subs, handles, unsubscribed, domVars, routerVars,
                   listVars, eventVars, moved, stored>>

\* h.ts:164-167
Subscribe(fn) ==
    /\ stack = <<>>
    /\ subs' = SubsAdd(subs, fn)
    /\ handles' = handles \cup {fn}
    /\ unsubscribed' = unsubscribed \ {fn}
    /\ obs' = SubsObs("subscribe", fn)
    /\ UNCHANGED <<value, stack, domVars, routerVars,
                   listVars, eventVars, moved, stored>>

\* h.ts:174-176
Unsub(fn) ==
    /\ stack = <<>>
    /\ subs' = SubsDelete(subs, fn)
    /\ unsubscribed' = unsubscribed \cup {fn}
    /\ obs' = SubsObs("unsub", fn)
    /\ UNCHANGED <<value, stack, handles, domVars, routerVars,
                   listVars, eventVars, moved, stored>>

\* h.ts:166  the closure returned by subscribe: () => this.subs.delete(fn)
CallHandle(fn) ==
    /\ stack = <<>>
    /\ fn \in handles
    /\ subs' = Handle(subs, fn)
    /\ unsubscribed' = unsubscribed \cup {fn}
    /\ obs' = SubsObs("handle", fn)
    /\ UNCHANGED <<value, stack, handles, domVars, routerVars,
                   listVars, eventVars, moved, stored>>

----------------------------------------------------------------------------
(* The document.  body is the connected document body; root is the         *)
(* container handed to mount and other a second container, both appended   *)
(* to body (tests/list.test.ts:126-129); a and b are elements built with h *)
(* and t is the text node appendRefText creates; nf is the "Not found"     *)
(* text node of the router (router.ts:74).                                 *)

Nodes     == {"body", "root", "other", "a", "b", "t", "nf"}
Roots     == {"root"}
Containers == {"root", "other"}
Elements  == {"a", "b"}
TextNodes == {"t", "nf"}

\* Pending removal records the queue may hold, and mount calls per root.
MaxPending == 1
MaxMounts  == 2

\* Pending removal records in the specifications of the batch handler.
MaxBatch == 2

NoNode == "none"

\* n is one of the children of p.
IsChildOf(ch, p, n) == ch[p] # <<>> /\ \E i \in 1..Len(ch[p]) : ch[p][i] = n

HasParent(ch, n) == \E p \in DOMAIN ch : IsChildOf(ch, p, n)

Parent(ch, n) ==
    LET ps == {p \in DOMAIN ch : IsChildOf(ch, p, n)}
    IN IF ps = {} THEN NoNode ELSE CHOOSE p \in ps : TRUE

RECURSIVE InclusiveAncestors(_, _)
InclusiveAncestors(ch, n) ==
    LET p == Parent(ch, n)
    IN IF p = NoNode THEN {n} ELSE {n} \cup InclusiveAncestors(ch, p)

RECURSIVE Subtree(_, _)
Subtree(ch, n) ==
    {n} \cup UNION {Subtree(ch, ch[n][i]) : i \in 1..Len(ch[n])}

\* Node.isConnected
IsConnected(ch, n) == "body" \in InclusiveAncestors(ch, n)

\* The platform state a DOM mutation reads and writes.
Dom == [children |-> children, transient |-> transient, records |-> records]

\* A platform that reports every child-list change to the observer.
ObservedAlways(d, p) == TRUE

\* Does a child-list change of target p reach the observer?  It does when an
\* inclusive ancestor of p has the observer registered (always with
\* subtree: true) or carries a transient registered observer, that is,
\* when p is in the subtree of such a node.
Observed(d, p) ==
    \E r \in observing \cup d.transient : p \in Subtree(d.children, r)

\* Has mount been called more than once on a root above p?
Remounted(d, p) ==
    \E r \in Roots : mountCalls[r] >= 2 /\ p \in Subtree(d.children, r)

\* A removal record: MutationRecord.removedNodes, plus what caused the record
\* (mount's replaceChildren or another removal) and whether the removal
\* happened under a root mounted more than once.
Record(d, p, removed, byMount) ==
    [removed |-> removed, byMount |-> byMount, remounted |-> Remounted(d, p)]

\* DOM "remove": take n out of its parent.  The removed node receives a
\* transient registered observer when its parent was observed, and a record
\* is queued unless observers are suppressed.
DomRemove(d, n, suppress) ==
    LET p   == Parent(d.children, n)
        see == Observed(d, p)
    IN IF p = NoNode THEN d
       ELSE [children  |-> [d.children EXCEPT ![p] = SeqDel(@, n)],
             transient |-> IF see THEN d.transient \cup {n} ELSE d.transient,
             records   |-> IF see /\ ~suppress
                           THEN Append(d.records, Record(d, p, <<n>>, FALSE))
                           ELSE d.records]

\* DOM "insert before null": n has no parent here.  The record it queues has
\* no removed nodes; the observer callback does nothing for such a record,
\* and it is left out of the queue.
DomInsert(d, p, n) ==
    [d EXCEPT !.children[p] = Append(@, n)]

\* Pre-insertion validity: a node cannot be inserted into itself, into one of
\* its descendants (the parent is then in the subtree of the node) or into a
\* text node (HierarchyRequestError).
CanInsert(ch, p, n) ==
    /\ p \notin TextNodes
    /\ p \notin Subtree(ch, n)

\* parent.appendChild(n): adopt (remove from the old parent), then insert.
DomAppendChild(d, p, n) == DomInsert(DomRemove(d, n, FALSE), p, n)

RECURSIVE DomRemoveAll(_, _)
DomRemoveAll(d, p) ==
    IF d.children[p] = <<>> THEN d
    ELSE DomRemoveAll(DomRemove(d, d.children[p][1], TRUE), p)

\* parent.replaceChildren(n), DOM "replace all": remove every child with
\* observers suppressed, insert n (adopting it first), then queue one record
\* for parent that lists the removed children.
DomReplaceChildren(d, p, n) ==
    LET removed == d.children[p]
        see     == Observed(d, p)
        rec     == Record(d, p, removed, TRUE)
        d1      == DomRemoveAll(d, p)
        d2      == DomAppendChild(d1, p, n)
    IN IF see /\ removed # <<>>
       THEN [d2 EXCEPT !.records = Append(@, rec)]
       ELSE d2

----------------------------------------------------------------------------
(* Unmount registry and tree-removal detector (internal/cleanup.ts).       *)

\* Cleanup callbacks: "ut" is the handle returned by ref.subscribe(updateText)
\* (index.ts:74-75); "c1" and "c2" are callbacks such as the listener removal
\* attachEventListener registers (h.ts:104), "c2" being one that throws; "cr"
\* is a callback that registers "cg" on its own node when it runs; "lu" is
\* the handle returned by items.subscribe(render) (router.ts:322-323).
Cleanups == {"ut", "lu", "c1", "c2", "cr", "cg"}

\* What a cleanup callback does when invoked.
CleanupBehaviour(c) ==
    CASE c = "ut" -> "unsub"
      [] c = "lu" -> "unsubList"
      [] c = "c1" -> "removeListener"
      [] c = "c2" -> "throw"
      [] c = "cr" -> "register"
      [] OTHER    -> "none"

\* index.ts:67-74  the updateText closure subscribed for text node n
UpdateTextOf(n) ==
    IF n \in Range(ItemNodesAll)
    THEN ItemSubsAll[CHOOSE k \in 1..Len(ItemNodesAll) : ItemNodesAll[k] = n]
    ELSE "rt"

\* The callback registered on each element.
CleanupOf(n) == IF n = "a" THEN "c1" ELSE "c2"

HasEntry(reg, n) == n \in DOMAIN reg

EntryOf(reg, n) == IF HasEntry(reg, n) THEN reg[n] ELSE <<>>

RegistryAddList(reg, n, c) ==
    [m \in DOMAIN reg \cup {n} |->
        IF m = n THEN Append(EntryOf(reg, n), c) ELSE reg[m]]

\* cleanup.ts:19-28
RegistryAdd(reg, n, c) ==
    [m \in DOMAIN reg \cup {n} |->
        IF m = n THEN SeqAdd(EntryOf(reg, n), c) ELSE reg[m]]

RegistryDeleteEmptied(reg, n) == [reg EXCEPT ![n] = <<>>]

\* cleanup.ts:88  nodeUnmountCallbacks.delete(node)
RegistryDelete(reg, n) == [m \in DOMAIN reg \ {n} |-> reg[m]]

\* The state the observer callback works on; thrown is an exception on its
\* way out of the callback.
CleanupState ==
    [registry |-> registry, subs |-> subs, unsubscribed |-> unsubscribed,
     listSubs |-> listSubs, listeners |-> listeners, log |-> <<>>,
     thrown |-> FALSE]

\* fn(): the invocation of one cleanup of node n.
CallCleanup(st, n, c) ==
    LET logged == [st EXCEPT !.log = Append(@, <<n, c>>)]
        does   == CleanupBehaviour(c)
    IN CASE does = "unsub" ->
                [logged EXCEPT !.subs = SubsDelete(@, UpdateTextOf(n)),
                               !.unsubscribed = @ \cup {UpdateTextOf(n)}]
         [] does = "removeListener" ->
                [logged EXCEPT !.listeners = @ \ {n}]
         [] does = "unsubList" ->
                [logged EXCEPT !.listSubs = SubsDelete(@, "render")]
         [] does = "throw" -> [logged EXCEPT !.thrown = TRUE]
         [] does = "register" ->
                [logged EXCEPT !.registry = RegistryAdd(@, n, "cg")]
         [] OTHER -> logged

CatchNothing(st) == st

\* cleanup.ts:80-84  try { fn() } catch {}
Catch(st) == [st EXCEPT !.thrown = FALSE]

\* cleanup.ts:79-85  for (const fn of set): the iteration is over the live
\* set, which yields a callback added during the iteration.
RECURSIVE RunFrom(_, _, _)
RunFrom(st, n, i) ==
    IF st.thrown \/ i > Len(EntryOf(st.registry, n)) THEN st
    ELSE RunFrom(Catch(CallCleanup(st, n, st.registry[n][i])), n, i + 1)

RunUnmountCallbacksKept(st, n) ==
    IF ~HasEntry(st.registry, n) THEN st ELSE RunFrom(st, n, 1)

RunUnmountCallbacksCleared(st, n) ==
    IF ~HasEntry(st.registry, n) THEN st
    ELSE [st EXCEPT !.registry = RegistryDelete(@, n)]

\* cleanup.ts:75-89
RunUnmountCallbacks(st, n) ==
    IF ~HasEntry(st.registry, n) THEN st
    ELSE LET ran == RunFrom(st, n, 1)
         IN IF ran.thrown THEN ran
            ELSE [ran EXCEPT !.registry = RegistryDelete(@, n)]

ReverseNone(s) == s

\* cleanup.ts:62-66  the children are pushed last to first
Reverse(s) == [i \in 1..Len(s) |-> s[Len(s) + 1 - i]]

RECURSIVE Walk(_, _, _)
Walk(st, ch, stk) ==
    IF st.thrown \/ stk = <<>> THEN st
    ELSE LET node == stk[Len(stk)]
             rest == SubSeq(stk, 1, Len(stk) - 1)
         IN Walk(RunUnmountCallbacks(st, node), ch, rest \o Reverse(ch[node]))

UnmountTreeRootOnly(st, ch, n) == RunUnmountCallbacks(st, n)

\* cleanup.ts:52-68
UnmountTree(st, ch, n) == Walk(st, ch, <<n>>)

ShouldUnmountAlways(ch, removed) == TRUE

ShouldUnmountNever(ch, removed) == FALSE

\* cleanup.ts:40  if (!removed.isConnected)
ShouldUnmount(ch, removed) == ~IsConnected(ch, removed)

ForRemovedFirstOnly(st, ch, removed) ==
    IF removed = <<>> THEN st
    ELSE IF ShouldUnmount(ch, Head(removed))
         THEN UnmountTree(st, ch, Head(removed))
         ELSE st

\* cleanup.ts:37-43  for (const removed of mutation.removedNodes)
RECURSIVE ForRemoved(_, _, _)
ForRemoved(st, ch, removed) ==
    IF st.thrown \/ removed = <<>> THEN st
    ELSE LET n == Head(removed)
         IN ForRemoved(IF ShouldUnmount(ch, n) THEN UnmountTree(st, ch, n) ELSE st,
                       ch, Tail(removed))

\* cleanup.ts:35-45  the MutationObserver callback
RECURSIVE ObserverCallback(_, _, _)
ObserverCallback(st, ch, mutations) ==
    IF st.thrown \/ mutations = <<>> THEN st
    ELSE ObserverCallback(ForRemoved(st, ch, Head(mutations).removed),
                          ch, Tail(mutations))

----------------------------------------------------------------------------
(* Operations of the lifecycle.                                            *)

SetDom(d) ==
    /\ children' = d.children
    /\ transient' = d.transient
    /\ records' = d.records

\* parent.appendChild(n) from user code or from h's appendChild
\* (index.ts:49-51); moves n when it already has a parent.  cap bounds the
\* records left pending by the operation.
AppendChild(p, n, cap) ==
    /\ stack = <<>>
    /\ CanInsert(children, p, n)
    /\ LET d == DomAppendChild(Dom, p, n)
       IN /\ Len(d.records) <= cap
          /\ SetDom(d)
    /\ obs' = NoObs
    /\ UNCHANGED <<refVars, observing, observedRoots, observeCalls, registry,
                   bound, mountCalls, replaced,
                   text, routerVars,
                   listVars, eventVars, moved, stored>>

\* n.remove() / parent.removeChild(n)
Remove(n, cap) ==
    /\ stack = <<>>
    /\ HasParent(children, n)
    /\ LET d == DomRemove(Dom, n, FALSE)
       IN /\ Len(d.records) <= cap
          /\ SetDom(d)
    /\ obs' = NoObs
    /\ UNCHANGED <<refVars, observing, observedRoots, observeCalls, registry,
                   bound, mountCalls, replaced,
                   text, routerVars,
                   listVars, eventVars, moved, stored>>

\* Is p inside a mounted root?
UnderMountedRoot(ch, p) == InclusiveAncestors(ch, p) \cap observedRoots # {}

\* parent.appendChild(n) with a node that has a parent: a move, as
\* other.appendChild(ul) in tests/list.test.ts:139.  A move from one place
\* under a mounted root to another is noted in moved.
MoveChild(p, n, cap) ==
    /\ stack = <<>>
    /\ HasParent(children, n)
    /\ CanInsert(children, p, n)
    /\ LET d == DomAppendChild(Dom, p, n)
       IN /\ Len(d.records) <= cap
          /\ SetDom(d)
    /\ moved' = IF /\ UnderMountedRoot(children, Parent(children, n))
                   /\ UnderMountedRoot(children, p)
                   /\ IsConnected(children, p)
                THEN moved \cup {n} ELSE moved
    /\ obs' = NoObs
    /\ UNCHANGED <<refVars, observing, observedRoots, observeCalls, registry,
                   bound, mountCalls, replaced,
                   text, routerVars,
                   listVars, eventVars, stored>>

\* What a removeChild call found: the mounted roots above the parent, the
\* nodes above it whose own removal is still pending, and the record queue.
RemoveChildObs(p, n) ==
    [op |-> "removeChild", parent |-> p, node |-> n,
     mounted |-> InclusiveAncestors(children, p) \cap observedRoots,
     pending |-> InclusiveAncestors(children, p) \cap transient,
     recordsBefore |-> records]

\* parent.removeChild(n) from user code (tests/list.test.ts:153-154)
RemoveChild(p, n, cap) ==
    /\ stack = <<>>
    /\ n \in Range(children[p])
    /\ LET d == DomRemove(Dom, n, FALSE)
       IN /\ Len(d.records) <= cap
          /\ SetDom(d)
    /\ obs' = RemoveChildObs(p, n)
    /\ UNCHANGED <<refVars, observing, observedRoots, observeCalls, registry,
                   bound, mountCalls, replaced,
                   text, routerVars,
                   listVars, eventVars, moved, stored>>

\* index.ts:63-76  appendRefText(parent, ref): a new text node is appended,
\* updateText is subscribed and its handle registered as the node's cleanup.
AppendRefText(p) ==
    /\ stack = <<>>
    /\ "t" \notin bound
    /\ p \in Elements
    /\ bound' = bound \cup {"t"}
    /\ SetDom(DomInsert(Dom, p, "t"))
    /\ text' = UpdateText(value)
    /\ subs' = SubsAdd(subs, "rt")
    /\ unsubscribed' = unsubscribed \ {"rt"}
    /\ registry' = RegistryAdd(registry, "t", "ut")
    /\ obs' = NoObs
    /\ UNCHANGED <<value, stack, handles, observing, observedRoots,
                   observeCalls, mountCalls, replaced, routerVars,
                   listVars, eventVars, moved, stored>>

\* cleanup.ts:19-28  onUnmount(node, fn)
OnUnmount(n, c) ==
    /\ stack = <<>>
    /\ registry' = RegistryAdd(registry, n, c)
    /\ obs' = NoObs
    /\ UNCHANGED <<refVars, children, observing, transient, records,
                   observedRoots, observeCalls, bound, mountCalls, replaced,
                   text, routerVars,
                   listVars, eventVars, moved, stored>>

\* The content argument of mount: a node, or a component function that
\* returns a node.
Contents == [fn : BOOLEAN, node : Elements]

\* mount.ts:30  typeof content === "function" ? content() : content
MountNode(content) == content.node

\* Invocations of content made by mount.
MountInvocations(content) == IF content.fn THEN 1 ELSE 0

MountDomAppend(d, root, node) == DomAppendChild(d, root, node)

\* mount.ts:32  root.replaceChildren(node)
MountDom(d, root, node) == DomReplaceChildren(d, root, node)

ShouldObserveAlways(root) == TRUE

\* mount.ts:34  if (!observedRoots.has(root))
ShouldObserve(root) == root \notin observedRoots

MountObs(root, content) ==
    [op |-> "mount", root |-> root, content |-> content,
     calls |-> MountInvocations(content), prior |-> children[root],
     wasObserved |-> root \in observedRoots]

\* A mount that unmounts the children it replaces itself, synchronously.
MountSync(root, content, cap) ==
    /\ stack = <<>>
    /\ mountCalls[root] < MaxMounts
    /\ mountCalls' = [mountCalls EXCEPT ![root] = @ + 1]
    /\ replaced' = replaced \cup Range(children[root])
    /\ LET node == MountNode(content)
           d    == MountDom(Dom, root, node)
           st   == ForRemoved(CleanupState, d.children, children[root])
       IN /\ CanInsert(children, root, node)
          /\ Len(d.records) <= cap
          /\ SetDom(d)
          /\ registry' = st.registry
          /\ subs' = st.subs
          /\ unsubscribed' = st.unsubscribed
          /\ listSubs' = st.listSubs
          /\ listeners' = st.listeners
          /\ obs' = MountObs(root, content)
          /\ IF ShouldObserve(root)
             THEN /\ observing' = observing \cup {root}
                  /\ observeCalls' = [observeCalls EXCEPT ![root] = @ + 1]
                  /\ observedRoots' = observedRoots \cup {root}
             ELSE UNCHANGED <<observing, observeCalls, observedRoots>>
    /\ UNCHANGED <<value, stack, handles, bound,
                   text, routerVars,
                   items, listKids, wired, moved, stored>>

\* mount.ts:29-38
Mount(root, content, cap) ==
    /\ stack = <<>>
    /\ mountCalls[root] < MaxMounts
    /\ mountCalls' = [mountCalls EXCEPT ![root] = @ + 1]
    /\ replaced' = replaced \cup Range(children[root])
    /\ LET node == MountNode(content)
           d    == MountDom(Dom, root, node)
       IN /\ CanInsert(children, root, node)
          /\ Len(d.records) <= cap
          /\ SetDom(d)
          /\ obs' = MountObs(root, content)
          /\ IF ShouldObserve(root)
             THEN /\ observing' = observing \cup {root}
                  /\ observeCalls' = [observeCalls EXCEPT ![root] = @ + 1]
                  /\ observedRoots' = observedRoots \cup {root}
             ELSE UNCHANGED <<observing, observeCalls, observedRoots>>
    /\ UNCHANGED <<refVars, registry, bound,
                   text, routerVars,
                   listVars, eventVars, moved, stored>>

\* The nodes the callback walks: the reported nodes it finds disconnected,
\* and what they hold.
Unmounted(ch, mutations) ==
    UNION {Subtree(ch, n) : n \in {m \in UNION {Range(mutations[i].removed) :
                                                 i \in 1..Len(mutations)} :
                                   ShouldUnmount(ch, m)}}

\* The observer's microtask: the pending records are taken, the transient
\* registered observers dropped and the callback invoked with the batch.
Deliver ==
    /\ stack = <<>>
    /\ records # <<>>
    /\ LET st == ObserverCallback(CleanupState, children, records)
       IN /\ registry' = st.registry
          /\ subs' = st.subs
          /\ unsubscribed' = st.unsubscribed
          /\ listSubs' = st.listSubs
          /\ listeners' = st.listeners
          /\ obs' = [op |-> "deliver", batch |-> records, before |-> registry,
                     subsBefore |-> subs, replaced |-> replaced,
                     log |-> st.log, escaped |-> st.thrown, moved |-> moved]
    /\ moved' = IF moved = {} THEN moved ELSE moved \ Unmounted(children, records)
    /\ records' = <<>>
    /\ transient' = {}
    /\ replaced' = {}
    /\ UNCHANGED <<value, stack, handles, children, observing, observedRoots,
                   observeCalls, bound, mountCalls,
                   text, routerVars,
                   items, listKids, wired, stored>>

----------------------------------------------------------------------------
(* The hash router (public/router.ts:1-143).  Strings are sequences of     *)
(* characters.                                                             *)

\* createRouter calls, and hashchange events fired and not yet dispatched.
MaxRouters == 2
MaxEvents  == 1

StartsWith(str, c) == str # <<>> /\ str[1] = c

\* router.ts:20-22
NormalizePath(path) == IF StartsWith(path, "/") THEN path ELSE <<"/">> \o path

MapSet(m, k, v) == [x \in DOMAIN m \cup {k} |-> IF x = k THEN v ELSE m[x]]

\* router.ts:31-33  for (const [path, component] of Object.entries(config))
RECURSIVE SetRoutesFrom(_, _)
SetRoutesFrom(m, config) ==
    IF config = <<>> THEN m
    ELSE SetRoutesFrom(MapSet(m, NormalizePath(Head(config).path), Head(config).component),
                       Tail(config))

\* router.ts:29-34  routes.clear(), then one routes.set per entry
SetRoutes(config) == SetRoutesFrom(<<>>, config)

\* A path read from the hash without taking the "#" off.
GetCurrentPathWithMark(h) == NormalizePath(IF h = <<>> THEN <<"/">> ELSE h)

\* router.ts:44-49
GetCurrentPathFromHash(h) ==
    LET raw  == IF StartsWith(h, "#") THEN Tail(h) ELSE h
        path == IF raw = <<>> THEN <<"/">> ELSE raw
    IN NormalizePath(path)

\* router.ts:57-62  ensureRouterRoot throws when routerRoot is null
EnsureRouterRootThrows(root) == root = NoNode

\* router.ts:69-80  renderRoute: the component's node, or the "Not found"
\* text node, replaces the children of the router root.
RenderRoute(d, root, rts, path) ==
    IF path \in DOMAIN rts
    THEN DomReplaceChildren(d, root, rts[path])
    ELSE DomReplaceChildren(d, root, "nf")

\* router.ts:134-137  handleHashChange
HandleHashChange(d, root, rts, h) ==
    RenderRoute(d, root, rts, GetCurrentPathFromHash(h))

\* The hashchange listeners run one after the other.
RECURSIVE RunListeners(_, _, _, _, _)
RunListeners(d, root, rts, h, k) ==
    IF k = 0 THEN d
    ELSE RunListeners(HandleHashChange(d, root, rts, h), root, rts, h, k - 1)

\* The location.hash setter: a leading "#" of the new value is dropped; the
\* getter returns "" for an empty fragment and "#" + fragment otherwise.
LocationSetHash(v) ==
    LET frag == IF StartsWith(v, "#") THEN Tail(v) ELSE v
    IN IF frag = <<>> THEN <<>> ELSE <<"#">> \o frag

SamePathNever(current, normalized) == FALSE

\* router.ts:91  getCurrentPathFromHash() === normalized
SamePath(current, normalized) == current = normalized

\* Route configurations passed to createRouter: Home is the component that
\* builds element a, About the one that builds b.
Configs ==
    {<<[path |-> <<"/">>, component |-> "a"],
       [path |-> <<"/", "a">>, component |-> "b"]>>,
     <<[path |-> <<"a">>, component |-> "a"]>>,
     <<[path |-> <<"/">>, component |-> "b"]>>}

\* Arguments of navigate and href values of Link.
NavPaths == {<<>>, <<"/">>, <<"a">>, <<"/", "a">>, <<"/", "x">>}

NoHref == <<"?">>

\* Values the user or the browser gives location.hash.
Hashes == {<<>>, <<"#", "/">>, <<"#", "a">>, <<"#", "/", "a">>, <<"#", "/", "x">>}

\* router.ts:127-143  createRouter(root, routesConfig)
CreateRouter(root, config) ==
    /\ stack = <<>>
    /\ hashListeners < MaxRouters
    /\ routerRoot' = root
    /\ routes' = SetRoutes(config)
    /\ hashListeners' = hashListeners + 1
    /\ SetDom(HandleHashChange(Dom, root, SetRoutes(config), hash))
    /\ obs' = [op |-> "create", root |-> root, prior |-> children[root],
               rendered |-> 1, initialised |-> TRUE,
               error |-> EnsureRouterRootThrows(root)]
    /\ UNCHANGED <<refVars, observing, observedRoots, observeCalls, registry,
                   bound, mountCalls, replaced, text, hash, hashEvents,
                   listVars, eventVars, moved, stored>>

\* A hashchange event is dispatched: one the hash setter fired, or one
\* dispatched by hand (window.dispatchEvent, part_000:171).
HashChange(byHand) ==
    /\ stack = <<>>
    /\ byHand \/ hashEvents > 0
    /\ hashEvents' = IF byHand THEN hashEvents ELSE hashEvents - 1
    /\ IF hashListeners = 0
       THEN /\ UNCHANGED <<children, transient, records>>
            /\ obs' = [op |-> "hashchange", root |-> routerRoot, prior |-> <<>>,
                       rendered |-> 0, initialised |-> routerRoot # NoNode,
                       error |-> FALSE]
       ELSE IF EnsureRouterRootThrows(routerRoot)
       THEN /\ UNCHANGED <<children, transient, records>>
            /\ obs' = [op |-> "hashchange", root |-> routerRoot, prior |-> <<>>,
                       rendered |-> 0, initialised |-> FALSE, error |-> TRUE]
       ELSE /\ SetDom(RunListeners(Dom, routerRoot, routes, hash, hashListeners))
            /\ obs' = [op |-> "hashchange", root |-> routerRoot,
                       prior |-> children[routerRoot],
                       rendered |-> hashListeners, initialised |-> TRUE,
                       error |-> FALSE]
    /\ UNCHANGED <<refVars, observing, observedRoots, observeCalls, registry,
                   bound, mountCalls, replaced, text, routerRoot, routes, hash,
                   hashListeners,
                   listVars, eventVars, moved, stored>>

\* router.ts:88-93  the hash navigate(path) leaves behind
NavigateHash(h, path) ==
    LET normalized == NormalizePath(path)
    IN IF SamePath(GetCurrentPathFromHash(h), normalized)
       THEN h
       ELSE LocationSetHash(normalized)

\* router.ts:87-94  navigate(path)
Navigate(path) ==
    /\ stack = <<>>
    /\ hash' = NavigateHash(hash, path)
    /\ hashEvents' = IF hash' = hash THEN hashEvents ELSE hashEvents + 1
    /\ hashEvents' <= MaxEvents
    /\ obs' = [op |-> "navigate", arg |-> path, before |-> hash,
               initialised |-> routerRoot # NoNode, error |-> FALSE]
    /\ UNCHANGED <<refVars, docVars, text, routerRoot, routes, hashListeners,
                   listVars, eventVars, moved, stored>>

\* router.ts:105  targetPath = normalizePath(props?.href ?? "/")
TargetPath(href) == NormalizePath(IF href = NoHref THEN <<"/">> ELSE href)

\* router.ts:107-110  a click on Link(props): navigate(targetPath)
Click(href) ==
    /\ stack = <<>>
    /\ hash' = NavigateHash(hash, TargetPath(href))
    /\ hashEvents' = IF hash' = hash THEN hashEvents ELSE hashEvents + 1
    /\ hashEvents' <= MaxEvents
    /\ obs' = [op |-> "click", arg |-> href, before |-> hash,
               initialised |-> routerRoot # NoNode, error |-> FALSE]
    /\ UNCHANGED <<refVars, docVars, text, routerRoot, routes, hashListeners,
                   listVars, eventVars, moved, stored>>

\* The user edits the address or goes back: the fragment changes and the
\* browser fires hashchange.
SetLocation(h) ==
    /\ stack = <<>>
    /\ h # hash
    /\ hashEvents < MaxEvents
    /\ hash' = h
    /\ hashEvents' = hashEvents + 1
    /\ obs' = NoObs
    /\ UNCHANGED <<refVars, docVars, text, routerRoot, routes, hashListeners,
                   listVars, eventVars, moved, stored>>

----------------------------------------------------------------------------
(* The element builder h (public/h.ts:20-87) and appendChild               *)
(* (internal/dom.ts, index.ts:32-56).  A JavaScript value given as a child *)
(* or as a style is a record: its kind, its characters when a string or    *)
(* the name when a node, its number, and its elements when an array.       *)

JsValue(kind, str, num, elems) ==
    [kind |-> kind, str |-> str, num |-> num, elems |-> elems]

Null      == JsValue("null", "", PlusZero, <<>>)
Undefined == JsValue("undefined", "", PlusZero, <<>>)
JsTrue    == JsValue("true", "", PlusZero, <<>>)
JsFalse   == JsValue("false", "", PlusZero, <<>>)
Str(s)    == JsValue("string", s, PlusZero, <<>>)
Num(v)    == JsValue("number", "", v, <<>>)
NodeOf(n) == JsValue("node", n, PlusZero, <<>>)
Arr(a)    == JsValue("array", "", PlusZero, a)
Obj       == JsValue("object", "", PlusZero, <<>>)

\* typeof value
TypeOf(c) ==
    CASE c.kind \in {"true", "false"} -> "boolean"
      [] c.kind = "undefined" -> "undefined"
      [] c.kind \in {"string", "number"} -> c.kind
      [] OTHER -> "object"

TruthyAlways(c) == TRUE

\* ToBoolean(value)
Truthy(c) ==
    CASE c.kind \in {"null", "undefined", "false"} -> FALSE
      [] c.kind = "string" -> c.str # ""
      [] c.kind = "number" -> ~c.num.nan /\ c.num.mag # 0
      [] OTHER -> TRUE

IsHoleFalsy(c) == ~Truthy(c)

\* index.ts:17-19  isHole: value == null || typeof value === "boolean"
IsHoleChild(c) == c.kind \in {"null", "undefined"} \/ TypeOf(c) = "boolean"

\* String(child) of a string or number child
StringOfChild(c) == IF c.kind = "string" THEN c.str ELSE StringOf(c.num)

\* The element under construction: its child nodes, the arguments of the
\* parent.appendChild calls made on it, how its style was set, and whether
\* an error was thrown.
NewElement == [kids |-> <<>>, appended |-> <<>>, style |-> "none", threw |-> FALSE]

\* document.createTextNode(data): a new node each time
CreateTextNode(el, data) ==
    [kind |-> "text", data |-> data, id |-> Len(el.appended) + 1]

ElementNode(n) == [kind |-> "element", data |-> n, id |-> 0]

\* parent.appendChild(node): a node that is already a child is moved to the end
ParentAppend(el, node) ==
    [el EXCEPT !.kids = Append(SeqDel(@, node), node),
               !.appended = Append(@, node)]

\* index.ts:32-56  appendChild(parent, child), without Ref children
RECURSIVE AppendChildLike(_, _)
AppendChildLike(el, child) ==
    LET RECURSIVE Each(_, _)
        Each(e, i) == IF i > Len(child.elems) THEN e
                      ELSE Each(AppendChildLike(e, child.elems[i]), i + 1)
    IN IF IsHoleChild(child) THEN el
       ELSE IF child.kind = "array" THEN Each(el, 1)
       ELSE IF child.kind = "node" THEN ParentAppend(el, ElementNode(child.str))
       ELSE ParentAppend(el, CreateTextNode(el, StringOfChild(child)))

\* h.ts:75-87  applyStyle(el, value)
ApplyStyle(el, v) ==
    IF TypeOf(v) = "string" THEN [el EXCEPT !.style = "attribute"]
    ELSE IF Truthy(v) /\ TypeOf(v) = "object" THEN [el EXCEPT !.style = "assigned"]
    ELSE [el EXCEPT !.threw = TRUE]

\* The props argument of h: null, or { style: value }.
NoProps == [given |-> FALSE, style |-> Null]
StyleProps(v) == [given |-> TRUE, style |-> v]

\* h.ts:43-64  setProps(el, props)
SetProps(el, props) == ApplyStyle(el, props.style)

\* h.ts:31-33  for (const child of children) appendChild(el, child)
RECURSIVE AppendChildren(_, _, _)
AppendChildren(el, kids, i) ==
    IF i > Len(kids) THEN el
    ELSE AppendChildren(AppendChildLike(el, kids[i]), kids, i + 1)

\* h.ts:20-35  the element h builds, or the error it throws
BuildElement(props, kids) ==
    LET el == IF props.given THEN SetProps(NewElement, props) ELSE NewElement
    IN IF el.threw THEN el ELSE AppendChildren(el, kids, 1)

\* h(tag, props, ...children) called from user code
H(props, kids) ==
    /\ stack = <<>>
    /\ obs' = [op |-> "h", props |-> props, children |-> kids,
               el |-> BuildElement(props, kids)]
    /\ UNCHANGED <<refVars, domVars, routerVars, listVars, eventVars, moved, stored>>

\* Children given to h (tests/h.test.ts:47-101): the holes, a string, the
\* number 0, two nodes, and arrays of them nested up to three deep.
ChildLikes ==
    {Null, Undefined, JsTrue, JsFalse, Str("s"), Num(PlusZero),
     NodeOf("a"), NodeOf("b"),
     Arr(<<>>),
     Arr(<<Str("s"), Arr(<<Null, NodeOf("a"), Arr(<<Num(PlusZero)>>)>>), NodeOf("b")>>),
     Arr(<<JsFalse, Arr(<<NodeOf("b"), Undefined, Str("s")>>), JsTrue>>)}

\* Number of children given to h.
MaxChildren == 2

ChildLists == UNION {[1..k -> ChildLikes] : k \in 0..MaxChildren}

\* Style values given in props.
StyleValues ==
    {Str("s"), Str(""), Obj, Arr(<<>>), Num(PlusZero), Num(One),
     Null, Undefined, JsTrue, JsFalse}

\* The props objects { style: value } given to h.
StyledProps == {StyleProps(v) : v \in StyleValues}

\* Children given to h together with a style: none, or one string.
StyledChildren == {<<>>, <<Str("s")>>}

----------------------------------------------------------------------------
(* The list helper (public/router.ts:291-326): list(tag, props, items,     *)
(* renderFn) with renderFn = (item, index) => h("li", null, item), as in   *)
(* tests/list.test.ts.  A rendered node is written as the item and index   *)
(* renderFn was called with.                                               *)

ItemValues == {"x", "y"}

\* Longest array given to the items cell.
MaxItems == 3

ItemArrays == UNION {[1..k -> ItemValues] : k \in 0..MaxItems}

\* renderFn(item, index)
RenderFn(item, index) == [item |-> item, index |-> index]

\* The element list() creates (router.ts:297).
ListNode == "ul"

ClearChildrenNone(kids) == kids

\* router.ts:299-301  while (parent.firstChild) parent.removeChild(...)
RECURSIVE ClearChildren(_)
ClearChildren(kids) == IF kids = <<>> THEN kids ELSE ClearChildren(Tail(kids))

\* router.ts:312-315  for (const item of listItems) appendChild(frag, renderFn(item, index++))
RECURSIVE RenderItems(_, _, _)
RenderItems(arr, index, frag) ==
    IF index >= Len(arr) THEN frag
    ELSE RenderItems(arr, index + 1, Append(frag, RenderFn(arr[index + 1], index)))

\* router.ts:303-318  render(): the new children of the list element
Render(kids, arr) ==
    LET cleared == ClearChildren(kids)
    IN IF Len(arr) = 0 THEN cleared ELSE cleared \o RenderItems(arr, 0, <<>>)

\* The argument of a set call on the items cell: a new array (items.set([...]))
\* or the array the cell already holds (items.set(prev => prev)); the arrays
\* are readonly (router.ts:294).
ListArgs == [fresh : {TRUE}, elems : ItemArrays] \cup {[fresh |-> FALSE, elems |-> <<>>]}

\* h.ts:136-137  the next value of the items cell
NextItems(arg, prev) == IF arg.fresh THEN arg.elems ELSE prev

\* h.ts:139  Object.is(prev, next) on arrays: the same reference
SameArray(arg) == ~arg.fresh

\* calls lists the (item, index) pairs renderFn was called with.
ListObs(op, same, calls) ==
    [op |-> op, same |-> same, calls |-> calls, kidsBefore |-> listKids]

\* router.ts:291-326  list(...): the first render, then items.subscribe(render)
\* and onUnmount(parent, unsub)
List ==
    /\ stack = <<>>
    /\ listSubs = <<>>
    /\ listKids' = Render(listKids, items)
    /\ listSubs' = SubsAdd(listSubs, "render")
    /\ registry' = RegistryAdd(registry, ListNode, "lu")
    /\ obs' = ListObs("list", FALSE, RenderItems(items, 0, <<>>))
    /\ UNCHANGED <<items, refVars, children, observing, transient, records,
                   observedRoots, observeCalls, bound, mountCalls, replaced,
                   text, routerVars, eventVars, moved, stored>>

\* items.set(next) (h.ts:133-156) with render as the only subscriber
ListSet(arg) ==
    /\ stack = <<>>
    /\ items' = NextItems(arg, items)
    /\ LET notified == ~SameArray(arg) /\ "render" \in Range(listSubs)
       IN /\ listKids' = IF notified THEN Render(listKids, items') ELSE listKids
          /\ obs' = ListObs("listSet", SameArray(arg),
                            IF notified THEN RenderItems(items', 0, <<>>) ELSE <<>>)
    /\ UNCHANGED <<listSubs, refVars, domVars, routerVars, eventVars, moved, stored>>

----------------------------------------------------------------------------
(* The list in the document: mount(root, () => list("ul", { onclick },     *)
(* items, () => r)) as in tests/list.test.ts:131 and 164, with a renderFn   *)
(* that returns the cell r, so that every item is a text node bound to r   *)
(* (index.ts:44-46, 63-76).  The list element and its item nodes are nodes *)
(* of the document tree.                                                   *)

\* Item text nodes a list creates in all.
MaxRendered == 4

ItemPool == SubSeq(ItemNodesAll, 1, MaxRendered)

ListTreeNodes == Nodes \cup {ListNode} \cup Range(ItemPool)

\* Pending removal records while a list re-renders.
MaxDiscards == 3

\* Arrays given to the items cell of the mounted list.
BoundArrays == {<<>>, <<"x">>, <<"x", "y">>}

BoundArgs == [fresh : {TRUE}, elems : BoundArrays]
             \cup {[fresh |-> FALSE, elems |-> <<>>]}

\* The state list() and render() read and write.
ListState ==
    [dom |-> Dom, registry |-> registry, subs |-> subs,
     unsubscribed |-> unsubscribed, bound |-> bound]

\* A clearChildren whose removals are not reported to the observer.
ClearSilently(d, p) == DomRemoveAll(d, p)

\* router.ts:299-301  while (parent.firstChild) parent.removeChild(parent.firstChild)
RECURSIVE ClearDom(_, _)
ClearDom(d, p) ==
    IF d.children[p] = <<>> THEN d
    ELSE ClearDom(DomRemove(d, d.children[p][1], FALSE), p)

\* The item text nodes not created yet.
Unused(bnd) == SelectSeq(ItemPool, LAMBDA n : n \notin bnd)

CanRender(arr) == Len(Unused(bound)) >= Len(arr)

\* index.ts:63-76  appendRefText(frag, r): text node n is created, its
\* updateText subscribed and the handle registered as its cleanup.
BindItem(ls, n) ==
    [ls EXCEPT !.subs = SubsAdd(@, UpdateTextOf(n)),
               !.unsubscribed = @ \ {UpdateTextOf(n)},
               !.registry = RegistryAdd(@, n, "ut"),
               !.bound = @ \cup {n}]

\* router.ts:312-315  for (const item of listItems) appendChild(frag, renderFn(item, index++))
RECURSIVE BindItems(_, _)
BindItems(ls, ns) ==
    IF ns = <<>> THEN ls ELSE BindItems(BindItem(ls, Head(ns)), Tail(ns))

\* router.ts:303-318  render(): the children are removed one by one, the new
\* items are built in a fragment and the fragment is appended.
RenderBound(ls, arr) ==
    LET cleared == [ls EXCEPT !.dom = ClearDom(@, ListNode)]
        ns      == SubSeq(Unused(ls.bound), 1, Len(arr))
    IN IF Len(arr) = 0 THEN cleared
       ELSE [BindItems(cleared, ns) EXCEPT !.dom.children[ListNode] = ns]

\* mount's content: the component function that builds the list.
ContentList == [fn |-> TRUE, node |-> ListNode]

\* mount.ts:29-38 with content = () => list("ul", { onclick }, items, () => r):
\* h builds the element and attaches the listener (h.ts:94-105), the items
\* are rendered, render is subscribed and its handle registered
\* (router.ts:297-323), then the element replaces the children of root.  The
\* element is built once: a second call of content would build another one.
MountList(root, cap) ==
    /\ stack = <<>>
    /\ ListNode \notin wired
    /\ mountCalls[root] < MaxMounts
    /\ CanRender(items)
    /\ mountCalls' = [mountCalls EXCEPT ![root] = @ + 1]
    /\ replaced' = replaced \cup Range(children[root])
    /\ LET wiredUp  == [ListState EXCEPT !.registry = RegistryAdd(@, ListNode, "c1")]
           rendered == RenderBound(wiredUp, items)
           built    == [rendered EXCEPT !.registry = RegistryAdd(@, ListNode, "lu")]
           d        == MountDom(built.dom, root, ListNode)
       IN /\ CanInsert(children, root, ListNode)
          /\ Len(d.records) <= cap
          /\ SetDom(d)
          /\ registry' = built.registry
          /\ subs' = built.subs
          /\ unsubscribed' = built.unsubscribed
          /\ bound' = built.bound
    /\ listSubs' = SubsAdd(listSubs, "render")
    /\ listeners' = listeners \cup {ListNode}
    /\ wired' = wired \cup {ListNode}
    /\ obs' = MountObs(root, ContentList)
    /\ IF ShouldObserve(root)
       THEN /\ observing' = observing \cup {root}
            /\ observeCalls' = [observeCalls EXCEPT ![root] = @ + 1]
            /\ observedRoots' = observedRoots \cup {root}
       ELSE UNCHANGED <<observing, observeCalls, observedRoots>>
    /\ UNCHANGED <<value, stack, handles, text, routerVars, items, listKids, moved, stored>>

\* What a set call on the items cell of the mounted list did.
BoundObs(notified) ==
    [op |-> "listSet", notified |-> notified,
     discarded |-> IF notified THEN children[ListNode] ELSE <<>>,
     underRoot |-> UnderMountedRoot(children, ListNode),
     subsBefore |-> subs]

\* items.set(next) (h.ts:133-156) on the items cell of the mounted list
ListBoundSet(arg, cap) ==
    /\ stack = <<>>
    /\ items' = NextItems(arg, items)
    /\ LET notified == ~SameArray(arg) /\ "render" \in Range(listSubs)
           ls       == IF notified THEN RenderBound(ListState, items') ELSE ListState
       IN /\ notified => CanRender(items')
          /\ Len(ls.dom.records) <= cap
          /\ SetDom(ls.dom)
          /\ registry' = ls.registry
          /\ subs' = ls.subs
          /\ unsubscribed' = ls.unsubscribed
          /\ bound' = ls.bound
          /\ obs' = BoundObs(notified)
    /\ UNCHANGED <<value, stack, handles, observing, observedRoots, observeCalls,
                   mountCalls, replaced, text, routerVars, listSubs, listKids,
                   eventVars, moved, stored>>

\* n.click() (tests/h.test.ts:42): the handler runs when the listener h
\* attached is still on the element.
DispatchEvent(n) ==
    /\ stack = <<>>
    /\ obs' = [op |-> "event", node |-> n,
               invoked |-> IF n \in listeners THEN 1 ELSE 0,
               moved |-> n \in moved]
    /\ UNCHANGED <<refVars, domVars, routerVars, listVars, eventVars, moved, stored>>

\* router.ts:10-13  no routes, routerRoot = null; the page has no fragment.
InitRouter ==
    /\ routerRoot = NoNode
    /\ routes = <<>>
    /\ hash = <<>>
    /\ hashListeners = 0
    /\ hashEvents = 0

\* No list element has been built.
InitList ==
    /\ listSubs = <<>>
    /\ listKids = <<>>

\* No element has a listener and nothing has been moved.
InitEvents ==
    /\ listeners = {}
    /\ wired = {}
    /\ moved = {}

\* The page: root and other are children of body, every other node of ns is
\* outside the document.
InitTree(ns) ==
    children = [n \in ns |-> IF n = "body" THEN <<"root", "other">> ELSE <<>>]

\* Nothing is observed, registered, bound or mounted.
InitPage ==
    /\ observing = {}
    /\ transient = {}
    /\ records = <<>>
    /\ observedRoots = {}
    /\ observeCalls = [n \in Roots |-> 0]
    /\ registry = [n \in {} |-> <<>>]
    /\ bound = {}
    /\ mountCalls = [n \in Roots |-> 0]
    /\ replaced = {}
    /\ text = ""
    /\ InitRouter
    /\ InitList
    /\ InitEvents

\* No history of the last store is kept.
InitHistory == stored = Untraced

InitDom ==
    /\ InitTree(Nodes)
    /\ InitPage
    /\ InitHistory

InitRef ==
    /\ value \in Values
    /\ subs = <<>>
    /\ stack = <<>>
    /\ handles = {}
    /\ unsubscribed = {}
    /\ obs = NoObs
    /\ items = <<>>
    /\ InitDom

NextRef ==
    \/ \E next \in SetArgs : Set(next)
    \/ Notify
    \/ Return
    \/ \E fn \in UserSubs : Subscribe(fn)
    \/ \E fn \in UserSubs : Unsub(fn)
    \/ \E fn \in UserSubs : CallHandle(fn)

SpecRef == InitRef /\ [][NextRef]_vars

\* The lifecycle: the cell starts as ref(1) with no user subscriber, and
\* every set call changes its value (r.set(curr => -curr)).
LifeArgs == {[fn |-> TRUE, val |-> PlusZero, upd |-> "negate"]}

Init ==
    /\ value = One
    /\ subs = <<>>
    /\ stack = <<>>
    /\ handles = {}
    /\ unsubscribed = {}
    /\ obs = NoObs
    /\ items = <<>>
    /\ InitDom

Next ==
    \/ \E p \in Containers \cup Elements, n \in Elements : AppendChild(p, n, MaxPending)
    \/ \E n \in Elements : Remove(n, MaxPending)
    \/ \E p \in Elements : AppendRefText(p)
    \/ \E n \in Elements : OnUnmount(n, CleanupOf(n))
    \/ \E root \in Roots, content \in Contents : Mount(root, content, MaxPending)
    \/ Deliver
    \/ \E next \in LifeArgs : Set(next)
    \/ Notify
    \/ Return

Spec == Init /\ [][Next]_vars

\* A text binding: h("div", null, r) with r = ref(0) (tests/h.test.ts:52-60)
\* or r = ref(null); the element is mounted, removed, and r is set.
TextInit == {PlusZero, JsNull}

TextArgs == {[fn |-> FALSE, val |-> JsNull, upd |-> "none"],
             [fn |-> FALSE, val |-> One, upd |-> "none"],
             [fn |-> TRUE, val |-> PlusZero, upd |-> "negate"]}

InitText ==
    /\ value \in TextInit
    /\ subs = <<>>
    /\ stack = <<>>
    /\ handles = {}
    /\ unsubscribed = {}
    /\ obs = NoObs
    /\ items = <<>>
    /\ InitDom

NextText ==
    \/ \E p \in Elements : AppendRefText(p)
    \/ \E root \in Roots, content \in Contents : Mount(root, content, MaxPending)
    \/ \E n \in Elements : Remove(n, MaxPending)
    \/ Deliver
    \/ \E next \in TextArgs : Set(next)
    \/ Notify
    \/ Return

SpecText == InitText /\ [][NextText]_vars

\* A list element: const items = ref([...]); list("ul", null, items, renderFn)
\* and then set calls on items (tests/list.test.ts:40-105).
InitListOf ==
    /\ value = One
    /\ subs = <<>>
    /\ stack = <<>>
    /\ handles = {}
    /\ unsubscribed = {}
    /\ obs = NoObs
    /\ items \in ItemArrays
    /\ InitDom

NextList ==
    \/ List
    \/ \E arg \in ListArgs : ListSet(arg)

SpecList == InitListOf /\ [][NextList]_vars

\* The unmount registry and the batch handler: elements are given cleanups
\* of every behaviour, moved and removed under a mounted root, and a batch may
\* hold several records.
CleanupsFor(n) == IF n = "a" THEN {"c2", "cr"} ELSE {"c1"}

\* mount(root, a): the content is the node a itself.
ContentA == [fn |-> FALSE, node |-> "a"]

NextClean ==
    \/ \E n \in Elements : \E c \in CleanupsFor(n) : OnUnmount(n, c)
    \/ AppendRefText("a")
    \/ \E p \in Roots \cup Elements, n \in Elements : AppendChild(p, n, MaxBatch)
    \/ \E n \in Elements : Remove(n, MaxBatch)
    \/ \E root \in Roots : Mount(root, ContentA, MaxBatch)
    \/ Deliver

SpecClean == Init /\ [][NextClean]_vars

\* The step in which the observer's microtask takes the pending records:
\* among the operations it is the step Deliver makes, and no other.
TakeRecords == records # <<>> /\ records' = <<>>

\* The detector with its scheduling: the observer's microtask runs once the
\* current script has returned, so a pending batch is always delivered.  No
\* set call is in progress in NextLive, so TakeRecords is enabled exactly
\* when Deliver is.
NextLive ==
    \/ \E n \in Elements : OnUnmount(n, CleanupOf(n))
    \/ \E p \in Roots \cup Elements, n \in Elements : AppendChild(p, n, MaxPending)
    \/ \E n \in Elements : Remove(n, MaxPending)
    \/ \E root \in Roots, content \in Contents : Mount(root, content, MaxPending)
    \/ Deliver

SpecLive == Init /\ [][NextLive]_vars /\ WF_records(TakeRecords)

\* The order of the cleanups: a tree of up to four nodes with one cleanup each
\* is built from a, b, the container other and the bound text node, mounted
\* and taken apart.
Movable == Elements \cup {"other"}

NextOrder ==
    \/ \E n \in Movable : OnUnmount(n, CleanupOf(n))
    \/ \E n \in Movable \ {"a"} : AppendChild("a", n, MaxBatch)
    \/ \E n \in Elements : Remove(n, MaxBatch)
    \/ AppendRefText("b")
    \/ \E root \in Roots : Mount(root, ContentA, MaxBatch)
    \/ Deliver

SpecOrder == Init /\ [][NextOrder]_vars

\* Moves out of the mounted root into the container other, which is never
\* mounted, and moves inside the mounted tree, with removals made while an
\* earlier batch is still pending.  a enters root through mount alone, so b
\* is under root only as a child of a.
MoveTargets == {"other"} \cup Elements

NextMove ==
    \/ \E n \in Elements : OnUnmount(n, CleanupOf(n))
    \/ AppendRefText("a")
    \/ \E p \in MoveTargets, n \in Elements : AppendChild(p, n, MaxBatch)
    \/ \E p \in MoveTargets, n \in Elements : RemoveChild(p, n, MaxBatch)
    \/ MoveChild("a", "b", MaxBatch)
    \/ \E root \in Roots : Mount(root, ContentA, MaxBatch)
    \/ Deliver

SpecMove == Init /\ [][NextMove]_vars

\* The mounted list: it is re-rendered, moved, removed and put back, the
\* cell its items are bound to is set, and its element is clicked.
InitBound ==
    /\ value = One
    /\ subs = <<>>
    /\ stack = <<>>
    /\ handles = {}
    /\ unsubscribed = {}
    /\ obs = NoObs
    /\ items \in BoundArrays
    /\ InitTree(ListTreeNodes)
    /\ InitPage
    /\ InitHistory

NextBound ==
    \/ \E root \in Roots : MountList(root, MaxDiscards)
    \/ \E arg \in BoundArgs : ListBoundSet(arg, MaxDiscards)
    \/ Remove(ListNode, MaxDiscards)
    \/ AppendChild("root", ListNode, MaxDiscards)
    \/ MoveChild("root", ListNode, MaxDiscards)
    \/ Deliver
    \/ \E next \in LifeArgs : Set(next)
    \/ Notify
    \/ Return
    \/ DispatchEvent(ListNode)

SpecBound == InitBound /\ [][NextBound]_vars

(* The element with a click handler, alone or under another element: the   *)
(* list is mounted, moved between root and the element a, removed alone or *)
(* with a, put back, and clicked.  Its items cell is never set.            *)

\* The list element and the element it may be put under.
ListHolders == {ListNode, "a"}

\* The parents the list element is moved to.
ListParents == {"root", "a"}

NextEvent ==
    \/ \E root \in Roots : MountList(root, MaxBatch)
    \/ \E n \in ListHolders : Remove(n, MaxBatch)
    \/ \E n \in ListHolders : AppendChild("root", n, MaxBatch)
    \/ AppendChild("a", ListNode, MaxBatch)
    \/ \E p \in ListParents : MoveChild(p, ListNode, MaxBatch)
    \/ Deliver
    \/ DispatchEvent(ListNode)

SpecEvent == InitBound /\ [][NextEvent]_vars

\* Calls of h: with children and no props, and with a style and no children.
(* A text binding and user callbacks on one cell, one of which sets the    *)
(* cell from inside its notification (r.subscribe(() => r.set(1))).  The   *)
(* history of the last store is kept.                                      *)

NestedSubs == {"fa", "fu", "fs", "fn"}

NestedArgs == {[fn |-> FALSE, val |-> One, upd |-> "none"],
               [fn |-> FALSE, val |-> PlusZero, upd |-> "none"],
               [fn |-> TRUE, val |-> PlusZero, upd |-> "negate"],
               [fn |-> TRUE, val |-> PlusZero, upd |-> "throw"]}

InitNested ==
    /\ value = PlusZero
    /\ subs = <<>>
    /\ stack = <<>>
    /\ handles = {}
    /\ unsubscribed = {}
    /\ obs = NoObs
    /\ items = <<>>
    /\ InitTree(Nodes)
    /\ InitPage
    /\ stored = StoredNow(<<>>)

NextNested ==
    \/ AppendRefText("a")
    \/ \E fn \in NestedSubs : Subscribe(fn)
    \/ \E next \in NestedArgs : Set(next)
    \/ Notify
    \/ Return

SpecNested == InitNested /\ [][NextNested]_vars

NextH ==
    \/ \E kids \in ChildLists : H(NoProps, kids)
    \/ \E props \in StyledProps, kids \in StyledChildren : H(props, kids)

SpecH == Init /\ [][NextH]_vars

\* The router on its own: the page of the router tests (part_000:138-142),
\* with cleanups registered on the route components' elements.
NextRouter ==
    \/ \E root \in Containers, config \in Configs : CreateRouter(root, config)
    \/ \E byHand \in BOOLEAN : HashChange(byHand)
    \/ \E path \in NavPaths : Navigate(path)
    \/ \E href \in NavPaths \cup {NoHref} : Click(href)
    \/ \E h \in Hashes : SetLocation(h)
    \/ \E n \in Elements : OnUnmount(n, CleanupOf(n))

SpecRouter == Init /\ [][NextRouter]_vars

----------------------------------------------------------------------------
(* Properties of the reactive cell.                                        *)

\* Same-value identity: NaN is identical to itself, +0 and -0 are distinct.
\* Every JavaScript number of Values has exactly one representation.
SameValue(a, b) == a = b

Changed == ~SameValue(obs.prev, obs.next)

\* f was invoked in this step.
Invoked(f) ==
    /\ stack # <<>>
    /\ Len(stack') >= Len(stack)
    /\ stack'[Len(stack)].inv[f] = stack[Len(stack)].inv[f] + 1

\* C1: a set call invokes every callback that stays subscribed throughout
\* exactly once when the computed next value differs from the current value
\* under same-value identity, and zero times when it is identical.
C1_NotifiedOncePerChange ==
    obs.op = "set" =>
        \A f \in Range(obs.snap) \cap Range(subs) :
            obs.inv[f] = IF Changed THEN 1 ELSE 0

C1_Witness ==
    /\ obs.op = "set"
    /\ Changed
    /\ Len(obs.snap) >= 2
    /\ \A f \in Range(obs.snap) : f \in Range(subs) /\ obs.inv[f] = 1

\* C2 as stated: a callback that has been unsubscribed, at whatever point,
\* is invoked zero further times.
C2_Original ==
    [][\A f \in Subscribers : Invoked(f) => f \notin unsubscribed]_vars

\* C2 amended: a set call that begins after a callback was unsubscribed does
\* not invoke it, and invokes every other subscribed callback once when the
\* value changes.
C2_UnsubscribedNotNotified ==
    obs.op = "set" =>
        /\ \A f \in obs.gone : obs.inv[f] = 0
        /\ Changed => \A f \in Range(obs.snap) \ obs.gone : obs.inv[f] = 1

C2_Witness ==
    /\ obs.op = "set"
    /\ Changed
    /\ obs.gone # {}
    /\ Range(obs.snap) # {}
    /\ \A f \in obs.gone : obs.inv[f] = 0
    /\ \A f \in Range(obs.snap) : obs.inv[f] = 1

Throws(f) == Behaviour(f) = "throw"

\* C10: when a subscriber throws during a notification pass, every other
\* subscriber of the pass, before or after it, is still invoked in the same
\* set call, and set returns without propagating the error.
C10_ThrowingSubscriberIsolated ==
    (obs.op = "set" /\ Changed /\ \E f \in Range(obs.snap) : Throws(f)) =>
        /\ \A f \in Range(obs.snap) : obs.inv[f] = 1
        /\ ~obs.error

C10_Witness ==
    /\ obs.op = "set"
    /\ Changed
    /\ \E i \in 2..(Len(obs.snap) - 1) : Throws(obs.snap[i])
    /\ \A f \in Range(obs.snap) : obs.inv[f] = 1
    /\ ~obs.error

\* C11: the callbacks a set call invokes are exactly the subscriber set as it
\* was when notification began, each once: a callback subscribed during the
\* pass is not invoked in it, a callback unsubscribed during the pass before
\* its turn still is.
C11_SnapshotNotified ==
    (obs.op = "set" /\ Changed) =>
        \A f \in Subscribers :
            obs.inv[f] = IF f \in Range(obs.snap) THEN 1 ELSE 0

\* fu unsubscribes fa before fa's turn, fa is still invoked; fs subscribes it
\* again during the pass and it is not invoked a second time.
C11_Witness ==
    /\ obs.op = "set"
    /\ Changed
    /\ obs.snap = <<"fu", "fa", "fs">>
    /\ obs.inv["fa"] = 1
    /\ subs = <<"fu", "fs", "fa">>

\* C12: set called with an updater function stores the updater's result for
\* the value current at the start of the call; when the result is identical
\* to that value the stored value stays and no subscriber is invoked.
C12_UpdaterApplied ==
    /\ (Len(stack) = 1 /\ Top.inv = ZeroInv /\ Top.arg.fn) =>
           /\ value = ApplyUpdater(Top.arg.upd, Top.prev)
           /\ ~SameValue(value, Top.prev)
    /\ (obs.op = "set" /\ obs.arg.fn) =>
           /\ obs.next = ApplyUpdater(obs.arg.upd, obs.prev)
           /\ ~Changed => /\ value = obs.prev
                          /\ obs.ret = obs.prev
                          /\ obs.inv = ZeroInv

C12_Witness ==
    /\ obs.op = "set"
    /\ obs.arg.fn
    /\ obs.arg.upd = "negate"
    /\ obs.prev = One
    /\ value = MinusOne
    /\ obs.snap # <<>>
    /\ \A f \in Range(obs.snap) : obs.inv[f] = 1

\* C13 as stated: set returns the previous value when the next value is
\* identical to it and otherwise the new value this call computed and stored,
\* whatever the subscribers do.
C13_Original ==
    obs.op = "set" => obs.ret = IF Changed THEN obs.next ELSE obs.prev

\* C13 amended: set returns the previous value when the next value is
\* identical to it; otherwise it returns the value the cell holds when the
\* call returns, which is the value this call stored unless a subscriber of
\* the pass called set(1), and is 1 then.
C13_ReturnsCurrentValue ==
    obs.op = "set" =>
        obs.ret = IF ~Changed THEN obs.prev
                  ELSE IF "fn" \in Range(obs.snap) THEN One
                  ELSE obs.next

C13_Witness ==
    /\ obs.op = "set"
    /\ Changed
    /\ "fn" \in Range(obs.snap)
    /\ obs.next = PlusZero
    /\ obs.ret = One
    /\ value = One

Occurrences(s, x) == Cardinality({i \in 1..Len(s) : s[i] = x})

\* C14: a callback subscribed more than once is in the subscriber set once:
\* the set never holds a callback twice, a subscribe call for a callback that
\* is already subscribed leaves the set as it was, no set call invokes a
\* callback more than once, and a single unsub leaves no occurrence of it.
C14_SubscribeIdempotent ==
    /\ \A f \in Subscribers : Occurrences(subs, f) <= 1
    /\ (obs.op = "subscribe" /\ obs.fn \in Range(obs.before)) => subs = obs.before
    /\ obs.op = "subscribe" => Occurrences(subs, obs.fn) = 1
    /\ obs.op = "set" => \A f \in Subscribers : obs.inv[f] <= 1
    /\ obs.op = "unsub" => /\ Occurrences(subs, obs.fn) = 0
                           /\ subs = SelectSeq(obs.before, LAMBDA f : f # obs.fn)

\* fa is subscribed a second time, other callbacks being subscribed too.
C14_Witness ==
    /\ obs.op = "subscribe"
    /\ obs.fn = "fa"
    /\ obs.before = <<"fa", "fb">>
    /\ subs = <<"fa", "fb">>

\* C15: the handle subscribe(fn) returned removes fn from the subscriber
\* set and nothing else; invoked when fn is not subscribed (a second time,
\* or after unsub(fn)) it leaves the set as it was; it raises no error.
C15_HandleIdempotent ==
    obs.op = "handle" =>
        /\ obs.fn \notin Range(subs)
        /\ \A f \in Subscribers \ {obs.fn} :
               Occurrences(subs, f) = Occurrences(obs.before, f)
        /\ obs.fn \notin Range(obs.before) => subs = obs.before
        /\ ~obs.error

\* The handle of fa is invoked when fa is no longer subscribed.
C15_Witness ==
    /\ obs.op = "handle"
    /\ obs.fn = "fa"
    /\ "fa" \in unsubscribed
    /\ obs.before = <<"fb">>
    /\ subs = <<"fb">>

----------------------------------------------------------------------------
(* Properties of the mount / cleanup lifecycle.                            *)

Count(log, e) == Cardinality({i \in 1..Len(log) : log[i] = e})

Entries(reg, n) == Range(EntryOf(reg, n))

\* The removed nodes the delivered batch reported.
Reported(batch) == UNION {Range(batch[i].removed) : i \in 1..Len(batch)}

\* Every cleanup that node n and its descendants had registered when the
\* batch was delivered was invoked exactly once by that delivery, and no
\* other callback was invoked for them.
CleanedOnce(n) ==
    \A m \in Subtree(children, n) : \A c \in Cleanups :
        Count(obs.log, <<m, c>>) = IF c \in Entries(obs.before, m) THEN 1 ELSE 0

\* The delivery left node n and its descendants alone.
Untouched(n) ==
    \A m \in Subtree(children, n) :
        /\ \A c \in Cleanups : Count(obs.log, <<m, c>>) = 0
        /\ HasEntry(obs.before, m) =>
               HasEntry(registry, m) /\ registry[m] = obs.before[m]

\* The text node's cleanup has run.
TextCleaned == "t" \in bound /\ ~HasEntry(registry, "t")

\* C3: a node removed from under a mounted root and left disconnected has
\* every cleanup registered on it and on its descendants invoked exactly once
\* when the batch is delivered; a later value change of the cell no longer
\* invokes the subscriber of the removed text node.
C3_RemovedSubtreeCleanedOnce ==
    /\ obs.op = "deliver" =>
           \A n \in Reported(obs.batch) :
               ~IsConnected(children, n) => CleanedOnce(n)
    /\ (obs.op = "set" /\ TextCleaned) => obs.inv["rt"] = 0

C3_Witness ==
    /\ obs.op = "deliver"
    /\ "a" \in Reported(obs.batch)
    /\ ~IsConnected(children, "a")
    /\ "t" \in Subtree(children, "a")
    /\ Count(obs.log, <<"a", "c1">>) = 1
    /\ Count(obs.log, <<"t", "ut">>) = 1
    /\ "rt" \in Range(obs.subsBefore)
    /\ "rt" \notin Range(subs)

\* C4: a removed node that is connected again when the batch is delivered (a
\* move) has none of its cleanups, and none of its descendants', invoked by
\* that delivery; subscriptions made before the move still fire on a later
\* set.
C4_MoveRunsNoCleanup ==
    /\ obs.op = "deliver" =>
           \A n \in Reported(obs.batch) :
               IsConnected(children, n) =>
                   /\ Untouched(n)
                   /\ ("t" \in Subtree(children, n) /\ "rt" \in Range(obs.subsBefore))
                          => "rt" \in Range(subs)
    /\ (obs.op = "set" /\ Changed /\ "t" \in bound /\ HasEntry(registry, "t"))
           => obs.inv["rt"] = 1

C4_Witness ==
    /\ obs.op = "deliver"
    /\ "a" \in Reported(obs.batch)
    /\ IsConnected(children, "a")
    /\ "t" \in Subtree(children, "a")
    /\ Entries(registry, "a") = {"c1"}
    /\ Entries(registry, "t") = {"ut"}
    /\ "rt" \in Range(subs)
    /\ obs.log = <<>>

\* The step is the delivery of the pending batch.
IsDelivery == records # <<>> /\ records' = <<>>

\* C5: cleanup never runs synchronously with the removal: no step other than
\* the delivery of the batch invokes a cleanup, drops a callback from the
\* registry or unsubscribes a text node's subscriber, so between a removal
\* and the delivery the removed node's registry entry is intact and its
\* subscription is still notified by set.
C5_NoSynchronousCleanup ==
    /\ []((("t" \in bound /\ HasEntry(registry, "t")) => "rt" \in Range(subs)))
    /\ [][~IsDelivery =>
            /\ \A n \in DOMAIN registry :
                   HasEntry(registry', n) /\ Entries(registry, n) \subseteq Entries(registry', n)
            /\ "rt" \in Range(subs) => "rt" \in Range(subs')
            /\ obs'.op # "deliver"]_vars

C5_Witness ==
    /\ records # <<>>
    /\ "a" \in Reported(records)
    /\ ~IsConnected(children, "a")
    /\ "t" \in Subtree(children, "a")
    /\ Entries(registry, "a") = {"c1"}
    /\ Entries(registry, "t") = {"ut"}
    /\ obs.op = "set"
    /\ Changed
    /\ obs.inv["rt"] = 1

\* C6: however often mount is called on a root, the root is registered with
\* the observer at most once: the first call registers it and records it in
\* observedRoots, later calls register nothing.
C6_RootRegisteredOnce ==
    \A r \in Roots :
        /\ observeCalls[r] = IF mountCalls[r] >= 1 THEN 1 ELSE 0
        /\ r \in observedRoots <=> mountCalls[r] >= 1
        /\ r \in observing <=> r \in observedRoots

C6_Witness ==
    /\ obs.op = "mount"
    /\ obs.wasObserved
    /\ mountCalls[obs.root] >= 2
    /\ observeCalls[obs.root] = 1

\* C7: after two or more mount calls on a root, a single removal of a node
\* under that root invokes each cleanup registered in the removed subtree
\* exactly once.
C7_RemountedRootCleansOnce ==
    obs.op = "deliver" =>
        \A i \in 1..Len(obs.batch) :
            obs.batch[i].remounted =>
                \A n \in Range(obs.batch[i].removed) :
                    ~IsConnected(children, n) => CleanedOnce(n)

C7_Witness ==
    /\ obs.op = "deliver"
    /\ Len(obs.batch) = 1
    /\ obs.batch[1].remounted
    /\ ~obs.batch[1].byMount
    /\ obs.batch[1].removed = <<"a">>
    /\ ~IsConnected(children, "a")
    /\ "t" \in Subtree(children, "a")
    /\ Count(obs.log, <<"a", "c1">>) = 1
    /\ Count(obs.log, <<"t", "ut">>) = 1

\* C8 as stated: the prior content every mount call replaces, the first call
\* on the root included, has its cleanups and those of its descendants run at
\* the next delivery (when it is still disconnected then).
C8_Original ==
    obs.op = "deliver" =>
        \A n \in obs.replaced : ~IsConnected(children, n) => CleanedOnce(n)

LastRecord == records[Len(records)]

\* C8 amended: a mount call on a root that is already observed (every call
\* after the first) reports the children it replaces, and those still
\* disconnected at the next delivery have their cleanups and their
\* descendants' run by it; the first mount call on a root reports nothing.
C8_ObservedMountCleansPrior ==
    /\ (obs.op = "mount" /\ obs.wasObserved /\ obs.prior # <<>>) =>
           /\ records # <<>>
           /\ LastRecord.byMount
           /\ LastRecord.removed = obs.prior
    /\ (obs.op = "mount" /\ ~obs.wasObserved) => records = <<>>
    /\ obs.op = "deliver" =>
           \A i \in 1..Len(obs.batch) :
               obs.batch[i].byMount =>
                   \A n \in Range(obs.batch[i].removed) :
                       ~IsConnected(children, n) => CleanedOnce(n)

C8_Witness ==
    /\ obs.op = "deliver"
    /\ Len(obs.batch) = 1
    /\ obs.batch[1].byMount
    /\ obs.batch[1].removed = <<"a", "b">>
    /\ IsConnected(children, "a")
    /\ ~IsConnected(children, "b")
    /\ "t" \in Subtree(children, "b")
    /\ obs.log = <<<<"b", "c2">>, <<"t", "ut">>>>

\* C9: mount invokes content exactly once when it is a component function and
\* not at all when it is a node, and leaves the root with the one produced
\* node as its only child, whatever children the root had before.
C9_MountReplacesChildren ==
    obs.op = "mount" =>
        /\ obs.calls = IF obs.content.fn THEN 1 ELSE 0
        /\ children[obs.root] = <<obs.content.node>>

C9_Witness ==
    /\ obs.op = "mount"
    /\ obs.content.fn
    /\ obs.calls = 1
    /\ Len(obs.prior) = 2
    /\ children[obs.root] = <<obs.content.node>>

----------------------------------------------------------------------------
(* Properties of the text binding.                                         *)

\* The string form of each value, the empty string for a hole.
Shown(v) ==
    CASE v = JsNull -> ""
      [] v = JsNaN -> "NaN"
      [] v = One -> "1"
      [] v = MinusOne -> "-1"
      [] v \in {PlusZero, MinusZero} -> "0"

\* C16: while the binding of the text node is live, the node shows the
\* string form of the cell's value (nothing for a hole) whenever no set call
\* is in progress, so right after every set call that changed the value;
\* once the node's cleanup has run at a delivery, no step changes the text
\* and no set call raises an error.
C16_TextFollowsCell ==
    /\ []((stack = <<>> /\ "t" \in bound /\ "rt" \in Range(subs))
             => text = Shown(value))
    /\ []((obs.op = "set" /\ "t" \in bound) => ~obs.error)
    /\ [][TextCleaned => text' = text]_vars

\* The node showed a hole, its container was removed and the batch
\* delivered, and a later set call changed the value and not the text.
C16_Witness ==
    /\ TextCleaned
    /\ ~IsConnected(children, "t")
    /\ obs.op = "set"
    /\ Changed
    /\ value = One
    /\ text = ""
    /\ ~obs.error

----------------------------------------------------------------------------
(* Properties of the router.                                               *)

\* C17 as stated: navigate, a click on a Link or a hashchange event before
\* createRouter has initialised the router raises an error.
C17_Original ==
    (obs.op \in {"navigate", "click", "hashchange"} /\ ~obs.initialised)
        => obs.error

\* C18 as stated: the route content a re-render removes from the router root
\* is reported to the detector, so that its cleanups run at the next
\* delivery.
C18_Original ==
    (obs.op = "hashchange" /\ obs.rendered > 0) =>
        \A n \in Range(obs.prior) :
            (~IsConnected(children, n) /\ Entries(registry, n) # {})
                => n \in Reported(records)

\* The route path each hash stands for, the empty hash meaning "/".
PathOfHash(h) ==
    CASE h = <<>> -> <<"/">>
      [] h = <<"#", "/">> -> <<"/">>
      [] h = <<"#", "a">> -> <<"/", "a">>
      [] h = <<"#", "/", "a">> -> <<"/", "a">>
      [] h = <<"#", "/", "x">> -> <<"/", "x">>

\* The node the router has to show: the registered component's element, or
\* the "Not found" text node.
RouteNode == IF PathOfHash(hash) \in DOMAIN routes
             THEN routes[PathOfHash(hash)] ELSE "nf"

\* C19: after createRouter and after every dispatched hashchange event the
\* children of the router root are exactly the node of the component
\* registered for the current hash path, or the one "Not found" text node.
C19_RootShowsCurrentRoute ==
    (obs.op \in {"create", "hashchange"} /\ obs.rendered > 0) =>
        children[routerRoot] = <<RouteNode>>

\* A hashchange for "#a" (path "/a") re-rendered a root that showed another
\* route.
C19_Witness ==
    /\ obs.op = "hashchange"
    /\ obs.rendered > 0
    /\ hash = <<"#", "a">>
    /\ obs.prior # <<>>
    /\ obs.prior # children[routerRoot]
    /\ children[routerRoot] = <<"b">>

\* The path with a leading "/" put in front when it has none.
Slashed(path) ==
    CASE path = <<>> -> <<"/">>
      [] path = <<"/">> -> <<"/">>
      [] path = <<"a">> -> <<"/", "a">>
      [] path = <<"/", "a">> -> <<"/", "a">>
      [] path = <<"/", "x">> -> <<"/", "x">>
      [] path = NoHref -> <<"/">>

\* C20: navigate(path) leaves the hash at "#" followed by the path
\* normalised to start with "/" when that differs from the current hash
\* path, and leaves the hash as it is otherwise; a click on a Link does the
\* same with its href (no href meaning "/").
C20_NavigateSetsHash ==
    obs.op \in {"navigate", "click"} =>
        hash = IF PathOfHash(obs.before) = Slashed(obs.arg)
               THEN obs.before
               ELSE <<"#">> \o Slashed(obs.arg)

\* navigate("a") with the hash at "#a": the path is current, the hash stays.
C20_Witness ==
    /\ obs.op = "navigate"
    /\ obs.arg = <<"a">>
    /\ obs.before = <<"#", "a">>
    /\ hash = <<"#", "a">>

----------------------------------------------------------------------------
(* Properties of the list helper.                                          *)

\* The nodes renderFn yields for the items of arr, in item order.
Rendering(arr) == [i \in 1..Len(arr) |-> RenderFn(arr[i], i - 1)]

\* C21: once list() has built the element, after every set call on the items
\* cell the children of the list element are exactly the nodes rendered for
\* the current items, in item order (none for an empty array, and none left
\* over from the previous render); every render calls renderFn once per item
\* with the indices 0..n-1 in order, and a set call that stores the array the
\* cell already holds renders nothing.
C21_ListShowsItems ==
    (obs.op \in {"list", "listSet"} /\ listSubs # <<>>) =>
        /\ listKids = Rendering(items)
        /\ obs.calls = IF obs.same THEN <<>> ELSE Rendering(items)

\* A set call that shrinks a rendered two-item list to one item.
C21_Witness ==
    /\ obs.op = "listSet"
    /\ ~obs.same
    /\ Len(obs.kidsBefore) = 2
    /\ items = <<"y">>
    /\ listKids = <<RenderFn("y", 0)>>

----------------------------------------------------------------------------
(* Properties of the element builder.                                      *)

\* What a child is to contribute: nothing for null, undefined, true and
\* false; for an array what its elements contribute, left to right; an
\* element for a node child and a text for a string or a number.
RECURSIVE Contribution(_)
Contribution(c) ==
    LET RECURSIVE Concat(_)
        Concat(i) == IF i > Len(c.elems) THEN <<>>
                     ELSE Contribution(c.elems[i]) \o Concat(i + 1)
    IN CASE c.kind \in {"null", "undefined", "true", "false"} -> <<>>
         [] c.kind = "array"  -> Concat(1)
         [] c.kind = "node"   -> <<[kind |-> "element", data |-> c.str]>>
         [] c.kind = "string" -> <<[kind |-> "text", data |-> c.str]>>
         [] c.kind = "number" -> <<[kind |-> "text", data |-> "0"]>>

RECURSIVE Contributions(_)
Contributions(kids) ==
    IF kids = <<>> THEN <<>> ELSE Contribution(Head(kids)) \o Contributions(Tail(kids))

KindAndData(nodes) ==
    [i \in 1..Len(nodes) |-> [kind |-> nodes[i].kind, data |-> nodes[i].data]]

\* C22: the nodes h appends to the element, in the order of the calls, are
\* what its children contribute read left to right and depth first through
\* nested arrays: nothing for null, undefined, true and false, one new text
\* node per string or number, and the node itself for a node child.
C22_ChildrenAppendedInOrder ==
    (obs.op = "h" /\ ~obs.el.threw) =>
        /\ KindAndData(obs.el.appended) = Contributions(obs.children)
        /\ \A i, j \in 1..Len(obs.el.appended) :
              (i # j /\ obs.el.appended[i].kind = "text")
                  => obs.el.appended[i] # obs.el.appended[j]

\* h("div", null, [false, ["b"-node, undefined, "s"], true], 0)
C22_Witness ==
    /\ obs.op = "h"
    /\ Len(obs.children) = 2
    /\ obs.children[1].kind = "array"
    /\ obs.children[2] = Num(PlusZero)
    /\ KindAndData(obs.el.kids) =
           <<[kind |-> "element", data |-> "b"], [kind |-> "text", data |-> "s"],
             [kind |-> "text", data |-> "0"]>>

----------------------------------------------------------------------------
(* Properties of the unmount registry and the batch handler.               *)

\* C24: a cleanup that registers a new cleanup on its own node while the
\* node's cleanups run leaves the new cleanup in a fresh entry: the new
\* cleanup is not invoked by the delivery in which it was registered and is
\* still registered when the delivery is over.
C24_Original ==
    obs.op = "deliver" =>
        \A n \in Elements :
            Count(obs.log, <<n, "cr">>) > 0 =>
                /\ Count(obs.log, <<n, "cg">>) = 0
                /\ "cg" \in Entries(registry, n)

\* Nodes the delivery just made had to clean: those in the subtree of a
\* reported node that is disconnected.
ToClean ==
    UNION {Subtree(children, n) :
              n \in {r \in Reported(obs.batch) : ~IsConnected(children, r)}}

\* C25: a throwing cleanup stops nothing: no error leaves the batch handler,
\* and every cleanup registered before the delivery on a node in the subtree
\* of a reported, disconnected node has been invoked, whichever cleanup threw
\* before it on the same node, in the same subtree or for an earlier record.
C25_ThrowingCleanupIsolated ==
    obs.op = "deliver" =>
        /\ ~obs.escaped
        /\ \A m \in ToClean :
              /\ \A c \in Entries(obs.before, m) : Count(obs.log, <<m, c>>) >= 1
              /\ ~HasEntry(registry, m)

\* The first cleanup of a throws; a's second cleanup, the cleanup of the text
\* node inside a and that of b, reported by the next record, have run.
C25_Witness ==
    /\ obs.op = "deliver"
    /\ Len(obs.batch) = 2
    /\ obs.batch[1].removed = <<"a">>
    /\ obs.batch[2].removed = <<"b">>
    /\ EntryOf(obs.before, "a") = <<"c2", "cr">>
    /\ obs.log = <<<<"a", "c2">>, <<"a", "cr">>, <<"a", "cg">>,
                   <<"t", "ut">>, <<"b", "c1">>>>

\* Number of records of the batch that report n as removed.
TimesReported(batch, n) ==
    Cardinality({i \in 1..Len(batch) : n \in Range(batch[i].removed)})

\* C26: a node that several records of one batch report as removed and that
\* is disconnected when the batch is delivered has each of the cleanups it
\* had before the delivery invoked exactly once by that delivery.
C26_RepeatedRecordCleansOnce ==
    obs.op = "deliver" =>
        \A n \in Elements :
            (TimesReported(obs.batch, n) >= 2 /\ ~IsConnected(children, n)) =>
                \A c \in Entries(obs.before, n) : Count(obs.log, <<n, c>>) = 1

\* a was removed, inserted again and removed again before the delivery.
C26_Witness ==
    /\ obs.op = "deliver"
    /\ TimesReported(obs.batch, "a") = 2
    /\ ~IsConnected(children, "a")
    /\ EntryOf(obs.before, "a") = <<"c2", "cr">>
    /\ Count(obs.log, <<"a", "c2">>) = 1
    /\ Count(obs.log, <<"a", "cr">>) = 1

\* C27: an element with cleanups whose removal is in the pending batch and
\* which is disconnected is eventually without a registry entry, its cleanups
\* having run, unless it is connected again; pending batches are delivered
\* (weak fairness of the delivery) and no operation takes a record back.
C27_ReportedRemovalCleaned ==
    \A n \in Elements :
        (n \in Reported(records) /\ ~IsConnected(children, n) /\ HasEntry(registry, n))
            ~> (IsConnected(children, n) \/ ~HasEntry(registry, n))

\* The delivery has cleaned b, reported and left disconnected.
C27_Witness ==
    /\ obs.op = "deliver"
    /\ "b" \in Reported(obs.batch)
    /\ ~IsConnected(children, "b")
    /\ HasEntry(obs.before, "b")
    /\ ~HasEntry(registry, "b")
    /\ obs.log = <<<<"b", "c2">>>>

\* The nodes of the subtree of n in pre-order: n, then the subtrees of its
\* children from the first to the last.
RECURSIVE PreOrder(_, _)
PreOrder(ch, n) ==
    LET RECURSIVE Kids(_)
        Kids(i) == IF i > Len(ch[n]) THEN <<>>
                   ELSE PreOrder(ch, ch[n][i]) \o Kids(i + 1)
    IN <<n>> \o Kids(1)

\* The nodes a delivery is to visit, in order: record after record, removed
\* node after removed node, the subtree of each disconnected one in pre-order.
RECURSIVE VisitsOfRemoved(_)
VisitsOfRemoved(removed) ==
    IF removed = <<>> THEN <<>>
    ELSE (IF IsConnected(children, Head(removed)) THEN <<>>
          ELSE PreOrder(children, Head(removed)))
         \o VisitsOfRemoved(Tail(removed))

RECURSIVE Visits(_)
Visits(batch) ==
    IF batch = <<>> THEN <<>>
    ELSE VisitsOfRemoved(Head(batch).removed) \o Visits(Tail(batch))

FirstVisit(v, m) == CHOOSE i \in 1..Len(v) : v[i] = m /\ \A j \in 1..(i - 1) : v[j] # m

\* C28: the cleanups a delivery invokes are invoked in the order in which
\* their nodes are first met when the records are read in the order reported
\* and the subtree of each disconnected removed node is read in pre-order (a
\* node before its descendants, the whole subtree of a child before the next
\* child).
C28_CleanupsInPreOrder ==
    obs.op = "deliver" =>
        LET v == Visits(obs.batch)
        IN \A i, j \in 1..Len(obs.log) :
              i < j =>
                  /\ obs.log[i][1] \in Range(v)
                  /\ obs.log[j][1] \in Range(v)
                  /\ FirstVisit(v, obs.log[i][1]) <= FirstVisit(v, obs.log[j][1])

\* b was removed from a before a was removed from the root, and put back into
\* a in front of other: the record of b is handled first, then that of a.
C28_Witness ==
    /\ obs.op = "deliver"
    /\ Len(obs.batch) = 2
    /\ obs.batch[1].removed = <<"b">>
    /\ obs.batch[2].removed = <<"a">>
    /\ children["a"] = <<"b", "other">>
    /\ children["b"] = <<"t">>
    /\ obs.log = <<<<"b", "c2">>, <<"t", "ut">>, <<"a", "c1">>, <<"other", "c2">>>>

\* No entry of the registry holds a callback twice.
StoredOnce ==
    \A n \in DOMAIN registry : \A c \in Cleanups : Occurrences(registry[n], c) <= 1

\* A step that changes the registry and neither the document, the record
\* queue nor the text binding: a registration.
Registration ==
    /\ registry' # registry
    /\ children' = children
    /\ records' = records
    /\ bound' = bound

\* C29: an entry never holds the same callback twice, however often it was
\* registered; a registration adds its callback after those the node already
\* has, which all stay; and a delivery invokes every callback a cleaned node
\* had exactly once.
C29_CallbacksStoredOnce ==
    /\ [](StoredOnce
          /\ (obs.op = "deliver" =>
                 \A m \in ToClean : \A c \in Entries(obs.before, m) :
                     Count(obs.log, <<m, c>>) = 1))
    /\ [][Registration =>
             \E n \in Elements : \E c \in Cleanups \ Entries(registry, n) :
                 registry' = [m \in DOMAIN registry \cup {n} |->
                                 IF m = n THEN Append(EntryOf(registry, n), c)
                                 ELSE registry[m]]]_vars

\* a was given the registering cleanup and then the throwing one; both have
\* been invoked once, in the order registered.
C29_Witness ==
    /\ obs.op = "deliver"
    /\ Len(obs.batch) = 1
    /\ EntryOf(obs.before, "a") = <<"cr", "c2">>
    /\ obs.log = <<<<"a", "cr">>, <<"a", "c2">>, <<"a", "cg">>>>

\* The text node's cleanup ran in an earlier delivery: the node is bound and
\* its subscriber was gone before this delivery.
TextCleanedEarlier == "t" \in bound /\ "rt" \notin Range(obs.subsBefore)

----------------------------------------------------------------------------
(* Properties of moves and of removals outside the mounted roots.          *)

\* The nodes for which the delivery invoked a cleanup.
LoggedNodes == {obs.log[i][1] : i \in 1..Len(obs.log)}

\* The delivery invoked cleanups only of nodes reported removed, and of their
\* descendants, and took the text node's subscription away only by invoking
\* its cleanup.
OnlyReportedCleaned ==
    obs.op = "deliver" =>
        /\ \A m \in LoggedNodes :
               \E n \in Reported(obs.batch) : m \in Subtree(children, n)
        /\ ("rt" \in Range(obs.subsBefore) /\ "rt" \notin Range(subs))
               => Count(obs.log, <<"t", "ut">>) = 1

\* C31 as stated: a removal with no mounted root above the parent queues no
\* removal record.
C31_Original ==
    (obs.op = "removeChild" /\ obs.mounted = {}) => records = obs.recordsBefore

\* C31: a removal with no mounted root above the parent, and with no node
\* above the parent whose own removal from under a mounted root is still
\* undelivered, queues no removal record; and a delivery invokes cleanups
\* only of reported nodes and their descendants, so the cleanups of the node
\* removed are not invoked and its subscription stays registered.
C31_UnmountedRemovalUnreported ==
    /\ (obs.op = "removeChild" /\ obs.mounted = {} /\ obs.pending = {})
           => records = obs.recordsBefore
    /\ OnlyReportedCleaned

\* a, holding the bound text node, has just been removed from the container
\* other while root is mounted: no record, cleanups and subscription intact.
C31_Witness ==
    /\ obs.op = "removeChild"
    /\ obs.parent = "other"
    /\ obs.node = "a"
    /\ "root" \in observedRoots
    /\ records = <<>>
    /\ children["a"] = <<"t">>
    /\ Entries(registry, "a") = {"c1"}
    /\ Entries(registry, "t") = {"ut"}
    /\ "rt" \in Range(subs)

\* The delivery left every node that is connected alone: none of its
\* cleanups was invoked and its registry entry is as it was.
ConnectedUntouched ==
    \A m \in Nodes :
        IsConnected(children, m) =>
            /\ \A c \in Cleanups : Count(obs.log, <<m, c>>) = 0
            /\ HasEntry(registry, m) <=> HasEntry(obs.before, m)
            /\ EntryOf(registry, m) = EntryOf(obs.before, m)

\* C32: when the batch is delivered, the cleanups of a reported node that is
\* disconnected and of the nodes inside it at that time are each invoked
\* once, and no cleanup of a node that is connected by then (a descendant
\* moved out before the delivery, and what it holds) is invoked.
C32_MovedOutDescendantSpared ==
    obs.op = "deliver" =>
        /\ \A n \in Reported(obs.batch) :
               ~IsConnected(children, n) => CleanedOnce(n)
        /\ ConnectedUntouched

\* a was taken from under root and, before the delivery, b was moved out of
\* a into other: a and the text node are cleaned, b is not.
C32_Witness ==
    /\ obs.op = "deliver"
    /\ Len(obs.batch) = 2
    /\ obs.batch[1].removed = <<"a">>
    /\ obs.batch[2].removed = <<"b">>
    /\ ~IsConnected(children, "a")
    /\ children["a"] = <<"t">>
    /\ "b" \in Range(children["other"])
    /\ obs.log = <<<<"a", "c1">>, <<"t", "ut">>>>
    /\ Entries(registry, "b") = {"c2"}

\* n is, at the delivery, inside a reported node that is disconnected.
InRemoved(n) ==
    \E r \in Reported(obs.batch) :
        ~IsConnected(children, r) /\ n \in Subtree(children, r)

\* C33: a delivery leaves the registry entries of a reported node that is
\* connected (a moved node) as they were; and when a node that was moved
\* under a mounted root, and not cleaned since, is inside a removed subtree at
\* a later delivery, that delivery invokes each cleanup of the node and of its
\* descendants exactly once.
C33_MovedNodeCleanedLater ==
    obs.op = "deliver" =>
        /\ \A n \in Reported(obs.batch) :
               IsConnected(children, n) => Untouched(n)
        /\ \A n \in obs.moved : InRemoved(n) => CleanedOnce(n)

\* b was moved inside a under the mounted root and that batch was delivered;
\* a, holding the text node and b, was then removed: this delivery reports a
\* alone and invokes the cleanups of a, the text node and b once each.
C33_Witness ==
    /\ obs.op = "deliver"
    /\ obs.moved = {"b"}
    /\ Len(obs.batch) = 1
    /\ obs.batch[1].removed = <<"a">>
    /\ ~IsConnected(children, "a")
    /\ children["a"] = <<"t", "b">>
    /\ obs.log = <<<<"a", "c1">>, <<"t", "ut">>, <<"b", "c2">>>>

----------------------------------------------------------------------------
(* Properties of the mounted list.                                         *)

\* The item text nodes created so far.
ItemsMade == bound \cap Range(ItemPool)

\* The cleanups of a created node have run: it has no registry entry (no
\* cleanup is registered on these nodes after their creation).
Cleaned(n) == n \in ItemsMade \cup wired /\ ~HasEntry(registry, n)

\* What stays as it is once the cleanups have run: the cleaned state, the
\* missing subscriptions and listener, and the children of the list.
Permanent ==
    /\ \A n \in ItemsMade :
           Cleaned(n) => /\ ~HasEntry(registry', n)
                         /\ UpdateTextOf(n) \notin Range(subs')
    /\ Cleaned(ListNode) =>
           /\ ~HasEntry(registry', ListNode)
           /\ "render" \notin Range(listSubs')
           /\ ListNode \notin listeners'
           /\ children'[ListNode] = children[ListNode]

\* After the cleanups have run, a set call on the cell invokes no updateText
\* of a cleaned item, a set call on the items cell does not re-render, and a
\* click invokes no handler.
NoReaction ==
    /\ obs.op = "set" =>
           \A n \in ItemsMade : Cleaned(n) => obs.inv[UpdateTextOf(n)] = 0
    /\ (obs.op = "listSet" /\ Cleaned(ListNode)) => ~obs.notified
    /\ (obs.op = "event" /\ Cleaned(ListNode)) => obs.invoked = 0

\* C34: once the cleanups of a removed node have run, no later operation,
\* re-insertion included, brings back its subscriptions or its listener: a
\* cleaned text node is not updated by set, a cleaned list keeps the children
\* it had and is not re-rendered, and its handler is not invoked.
C34_CleanupPermanent == []NoReaction /\ [][Permanent]_vars

\* The list was cleaned and put back under root; the cell was then set to a
\* new value and no item was updated.
C34_Witness ==
    /\ obs.op = "set"
    /\ Changed
    /\ Cleaned(ListNode)
    /\ IsConnected(children, ListNode)
    /\ Len(children[ListNode]) = 2
    /\ \A n \in Range(children[ListNode]) : Cleaned(n)
    /\ \A f \in Subscribers : obs.inv[f] = 0

\* The item nodes whose updateText is still subscribed to the cell.
StillSubscribed == {n \in ItemsMade : UpdateTextOf(n) \in Range(subs)}

Displayed == Range(children[ListNode])

\* The item nodes a delivery ran the cleanup of.
ItemsCleanedBy(log) ==
    {n \in ItemsMade : \E i \in 1..Len(log) : log[i][1] = n}

\* C35: a re-render of a list under a mounted root reports every item node
\* it discards to the observer, the next delivery runs the cleanup of every
\* discarded item it was given, and whenever no removal is pending the only
\* item nodes still subscribed to the cell are those the list displays.
C35_DiscardedItemsCleaned ==
    /\ (obs.op = "listSet" /\ obs.notified /\ obs.underRoot) =>
           Range(obs.discarded) \subseteq Reported(records)
    /\ obs.op = "deliver" =>
           /\ (Reported(obs.batch) \cap ItemsMade) \ Displayed
                  \subseteq ItemsCleanedBy(obs.log)
           /\ (Reported(obs.batch) \cap ItemsMade) \cap StillSubscribed = {}
    /\ records = <<>> => StillSubscribed \subseteq Displayed

\* Two re-renders were delivered in one batch: two discarded items were
\* cleaned and the one displayed item is the only one left subscribed.
C35_Witness ==
    /\ obs.op = "deliver"
    /\ Len(obs.batch) >= 2
    /\ Cardinality(ItemsCleanedBy(obs.log)) >= 2
    /\ ~Cleaned(ListNode)
    /\ UnderMountedRoot(children, ListNode)
    /\ Displayed # {}
    /\ StillSubscribed = Displayed

----------------------------------------------------------------------------
(* Properties of event handlers.                                           *)

\* The element or one of its ancestors was reported removed by the batch
\* and the element is outside the document at the delivery.
RemovedWithAncestor(n, batch) ==
    /\ InclusiveAncestors(children, n) \cap Reported(batch) # {}
    /\ ~IsConnected(children, n)

\* C39: a click on an element built with an onclick prop invokes the handler
\* exactly when the cleanups of the element have not run, wherever the
\* element was moved to; a delivery whose batch reports the removal of the
\* element or of an ancestor, the element being outside the document,
\* detaches the listener, and a detached listener is never attached again.
C39_HandlerUntilCleaned ==
    /\ [](/\ (obs.op = "event" /\ obs.node \in wired) =>
                 (obs.invoked = 1 <=> HasEntry(registry, obs.node))
          /\ (obs.op = "deliver" /\ ListNode \in wired
              /\ RemovedWithAncestor(ListNode, obs.batch)) =>
                 (ListNode \notin listeners /\ Cleaned(ListNode)))
    /\ [][(ListNode \in wired /\ ListNode \notin listeners) =>
              ListNode \notin listeners']_vars

\* The element a holding the list was removed from under root and the batch
\* delivered: the list, not reported itself, lost the listener it had.
C39_Witness ==
    /\ obs.op = "deliver"
    /\ ListNode \in wired
    /\ Parent(children, ListNode) = "a"
    /\ "a" \in Reported(obs.batch)
    /\ ListNode \notin Reported(obs.batch)
    /\ HasEntry(obs.before, ListNode)
    /\ ListNode \notin listeners

\* The cleaned list was put back under root and clicked: no handler ran.
C39_ClickedAfterCleanup ==
    /\ obs.op = "event"
    /\ obs.node \in wired
    /\ obs.invoked = 0
    /\ UnderMountedRoot(children, ListNode)

\* The handler ran at a click on the list after the list was moved.
C39_ClickedAfterMove ==
    /\ obs.op = "event"
    /\ obs.moved
    /\ obs.invoked = 1

----------------------------------------------------------------------------
(* Properties of nested set calls.                                         *)

\* While a nested set call is on the stack the calls below it do not move.
OuterWaits ==
    \A k \in 1..(Len(stack) - 1) : k <= Len(stack') /\ stack'[k] = stack[k]

\* A returning set call that stored a value has invoked every callback of
\* its own snapshot once.
OwnSnapshotNotified ==
    (obs.op = "set" /\ Changed) =>
        \A f \in Subscribers :
            obs.inv[f] = IF f \in Range(obs.snap) THEN 1 ELSE 0

\* C36: a set call made by a subscriber during a notification runs its own
\* pass to the end before the outer pass goes on, and the outer pass invokes
\* the rest of its own snapshot; when no set call is running, every callback
\* that was subscribed when the value was last stored has been invoked since,
\* and the bound text node shows the value of the cell.
C36_NestedSetSettles ==
    /\ [](/\ OwnSnapshotNotified
          /\ stack = <<>> =>
                 /\ Range(stored.at) \subseteq stored.seen
                 /\ "rt" \in Range(subs) => text = UpdateText(value))
    /\ [][OuterWaits]_vars

\* The outermost set call returned after a subscriber had set the cell to
\* another value; the text node, notified first by the outer pass, and the
\* plain callback notified last were both in the snapshot.
C36_Witness ==
    /\ obs.op = "set"
    /\ stack = <<>>
    /\ ~ObjectIs(obs.next, value)
    /\ Len(obs.snap) = 3
    /\ obs.snap[1] = "rt"
    /\ obs.snap[2] = "fn"
    /\ obs.snap[3] = "fa"
    /\ text = "1"

\* The last operation was a set call whose updater threw.
UpdaterThrew == obs.op = "set" /\ obs.arg.upd = "throw"

\* C37: a set call whose updater throws ends with the error, which reaches
\* the caller; it invokes no subscriber and leaves the stored value, the
\* subscriber set and the text of the bound node as they were.
C37_ThrowingUpdaterChangesNothing ==
    /\ [](UpdaterThrew =>
              /\ obs.error
              /\ stack = <<>>
              /\ value = obs.prev
              /\ subs = obs.snap
              /\ \A f \in Subscribers : obs.inv[f] = 0)
    /\ [][UpdaterThrew' =>
              /\ value' = value
              /\ subs' = subs
              /\ text' = text
              /\ stored' = stored]_vars

\* A throwing updater was given to a cell that holds a value other than the
\* initial one and has the text node and a callback subscribed.
C37_Witness ==
    /\ UpdaterThrew
    /\ obs.error
    /\ value = One
    /\ "rt" \in Range(subs)
    /\ "fn" \in Range(subs)

----------------------------------------------------------------------------
(* Properties of repeated router initialisation.                           *)

\* C38 as stated: however many times createRouter was called, a hashchange
\* event renders the component of the current path once, into the root of
\* the most recent createRouter call.
C38_Original ==
    (obs.op = "hashchange" /\ obs.initialised /\ ~obs.error) =>
        /\ obs.rendered = 1
        /\ obs.root = routerRoot

====
